---- MODULE Spec2Model ----
(***************************************************************************)
(* SecureVote: the anonymous ballot ledger (blockchain/blockchain.py), the *)
(* vote endpoint (backend/api.py), the blind-signature primitives          *)
(* (backend/blind_signature.py) and the voter registry                    *)
(* (backend/voter_registry.py over backend/database.py).                  *)
(*                                                                         *)
(* Specifications:                                                         *)
(*   Spec      - one ledger instance, calls one after the other, disk      *)
(*               writes succeed, the process may be restarted between      *)
(*               calls;                                                    *)
(*   SpecFault - the same ledger with _save taken step by step: the write  *)
(*               may raise, and the process may stop at any point and be   *)
(*               started again;                                            *)
(*   SpecLoad  - a process started on a chain file it may not have written, *)
(*               then called directly;                                     *)
(*   SpecConc  - several threads inside Blockchain.cast_vote, interleaved  *)
(*               at the statements of the method;                          *)
(*   SpecReg   - several threads inside issue_blind_token, interleaved at  *)
(*               the database calls (each one transaction);                *)
(*   SpecBoot  - the registry from an empty database file, its functions   *)
(*               and the register endpoint called one after the other;     *)
(*   SpecBootConc - several threads inside bootstrap, interleaved at the   *)
(*               database calls;                                           *)
(*   SpecBlind - one voter's run of the blind-signature protocol:          *)
(*               blind_token, blind_sign, unblind_signature,               *)
(*               verify_signature, and verify_signature again on another   *)
(*               signature integer;                                        *)
(*   SpecRead  - SpecConc with threads that call get_stats and get_chain;  *)
(*   SpecQuery - one ledger instance, cast_vote and the query and audit    *)
(*               methods called one after the other;                       *)
(*   SpecStores - one deployment: the registry's functions, the vote       *)
(*               endpoint and the ledger's readers, one after the other;   *)
(*   SpecEndToEnd - SpecReg with votes whose credentials come from the     *)
(*               responses of issue_blind_token;                           *)
(*   SpecLive  - SpecRead with verify_chain and with exceptions inside     *)
(*               cast_vote, under a fair scheduler;                        *)
(*   SpecSingleton - several threads inside get_blockchain, interleaved at *)
(*               its statements.                                           *)
(***************************************************************************)
EXTENDS Integers, Sequences, FiniteSets, TLC

VARIABLES
    chain,          \* Blockchain.chain: sequence of blocks
    pending_votes,  \* Blockchain.pending_votes
    spent_tokens,   \* Blockchain.spent_tokens
    file,           \* the content of CHAIN_FILE
    now,            \* the clock read by time.time()
    result,         \* what the last call returned (or the exception it raised)
    receipts,       \* the nullifiers of the calls that returned success, in order
    lpc,            \* SpecFault: where the single ledger process is
    _blockchain_instance, \* the module's global: the thread that constructed it, 0 for None
    _blockchain_lock,     \* holder of the module's _blockchain_lock, 0 when free
    lock,           \* SpecConc, SpecRead: holder of Blockchain._lock, 0 when free
    pc,             \* SpecConc, SpecRead, SpecLive, SpecSingleton: per thread, the statement it is at
    arg,            \* the same: per thread, the arguments of its call
    ret,            \* the same: per thread, what its call returned
    eligible_voters,\* table eligible_voters: set of voter ids
    voters,         \* table voters: voter id -> token_issued, for the rows present
    issuer_keys,    \* table issuer_keys: the row with id 1, or NoRow
    rpc,            \* SpecReg, SpecBootConc, SpecBlind: per thread, the statement it is at
    rarg,           \* SpecReg, SpecBootConc, SpecBlind: per thread, the arguments of its call
    rloc,           \* SpecReg, SpecBootConc, SpecBlind: per thread, the locals of its call
    rret            \* SpecReg, SpecBootConc, SpecBlind: per thread, what its call returned

ledgerVars == <<chain, pending_votes, spent_tokens, file, now, result, receipts>>
singletonVars == <<_blockchain_instance, _blockchain_lock>>
faultVars == <<lpc, _blockchain_instance, _blockchain_lock>>
concVars == <<lock, pc, arg, ret>>
dbVars == <<eligible_voters, voters, issuer_keys>>
regVars == <<rpc, rarg, rloc, rret>>
vars == <<chain, pending_votes, spent_tokens, file, now, result, receipts,
          lpc, _blockchain_instance, _blockchain_lock,
          lock, pc, arg, ret, eligible_voters, voters, issuer_keys,
          rpc, rarg, rloc, rret>>

----------------------------------------------------------------------------
(* Bounds of the model *)

\* tokens the voters hold: 1..MaxTokens
MaxTokens == 2
\* the clock takes the values 0..MaxTime
MaxTime == 1
\* the block hash prefix (DIFFICULTY hex digits) takes HashPrefixSpace values
HashPrefixSpace == 3
\* how many ballots the callers may see accepted in one run (SpecFault)
MaxReceipts == 3
\* threads of SpecConc and of SpecReg
NumThreads == 2

Tokens == 1..MaxTokens
Times == 0..MaxTime
Threads == 1..NumThreads

----------------------------------------------------------------------------
(* blind_signature.py: the primitives, over a small RSA key *)

\* the issuer's key pair: n = 3 * 11, e * d = 1 (mod 20)
IssuerKey == [n |-> 33, e |-> 3, d |-> 7]
\* another issuer's key pair: n = 5 * 7, e * d = 1 (mod 24)
OtherKey == [n |-> 35, e |-> 5, d |-> 5]
\* key.publickey()
publickey(key) == [n |-> key.n, e |-> key.e]

\* table issuer_keys: no row, and the row store_issuer_keys writes
NoRow == [private_key |-> [n |-> 0, e |-> 0, d |-> 0], public_key |-> [n |-> 0, e |-> 0]]
KeyRow(key) == [private_key |-> key, public_key |-> publickey(key)]

RECURSIVE pow(_, _, _)
pow(b, x, n) == IF x = 0 THEN 1 % n ELSE (b * pow(b, x - 1, n)) % n

\* SHA256.new(token).digest() as an integer: one-to-one on the tokens, and
\* not below the modulus, so that reducing it mod n matters
SHA256(token) == 31 + 9 * token

\* one byte of the transport encoding holds a value below ByteBase
ByteBase == 4

RECURSIVE to_bytes(_)
to_bytes(n) == IF n = 0 THEN <<>> ELSE Append(to_bytes(n \div ByteBase), n % ByteBase)

RECURSIVE from_bytes(_)
from_bytes(s) ==
    IF s = <<>> THEN 0
    ELSE from_bytes(SubSeq(s, 1, Len(s) - 1)) * ByteBase + s[Len(s)]

\* a transport string holds bytes, and may hold a character outside the
\* base64 alphabet or end in the middle of a group of four characters
NonAlphabet == -1
CutShort == -2

\* base64.b64decode(s), validate=False: characters outside the alphabet are
\* discarded; what is left must be padded correctly or binascii.Error is raised
b64decode_raises(b64_str) == \E i \in 1..Len(b64_str) : b64_str[i] = CutShort
b64decode(b64_str) == SelectSeq(b64_str, LAMBDA c : c \in 0..(ByteBase - 1))

int_to_b64(n) == to_bytes(n)
b64_to_int(b64_str) == from_bytes(b64decode(b64_str))

verify_signature(token, signature_int, key) ==
    pow(signature_int, key.e, key.n) = SHA256(token) % key.n

blind_sign(blinded_token_bytes, key) == pow(from_bytes(blinded_token_bytes), key.d, key.n)

\* pow(blinding_factor, -1, n) raises ValueError when the base has no inverse
\* for the modulus
Invertible(blinding_factor, n) == \E x \in 1..(n - 1) : (blinding_factor * x) % n = 1
r_inv(blinding_factor, n) == CHOOSE x \in 1..(n - 1) : (blinding_factor * x) % n = 1

unblind_signature(blind_sig_int, blinding_factor, key) ==
    (blind_sig_int * r_inv(blinding_factor, key.n)) % key.n

token_hash(token) == SHA256(token)

\* the credential the issuer's signature over token gives
Credential(token, key) == int_to_b64(pow(SHA256(token) % key.n, key.d, key.n))

----------------------------------------------------------------------------
(* blockchain.py: blocks *)

CANDIDATES == <<"Candidate A", "Candidate B", "Candidate C">>
CandidateSet == {CANDIDATES[i] : i \in 1..Len(CANDIDATES)}

\* "0" * 64
ZeroHash == <<>>

\* sha256 of the canonical JSON of the five fields: one-to-one on the fields
compute_hash(index, timestamp, votes, previous_hash, nonce) ==
    <<index, timestamp, votes, previous_hash, nonce>>

\* the first DIFFICULTY hex digits of a hash, as a number below HashPrefixSpace
HexPrefix(h) == (h[1] + h[2] + Len(h[3]) + h[5]) % HashPrefixSpace

\* hash.startswith("0" * DIFFICULTY)
StartsWithZeros(h) == HexPrefix(h) = 0

_compute_hash(b) == compute_hash(b.index, b.timestamp, b.votes, b.previous_hash, b.nonce)

Block(index, timestamp, votes, previous_hash, nonce) ==
    [index |-> index, timestamp |-> timestamp, votes |-> votes,
     previous_hash |-> previous_hash, nonce |-> nonce,
     hash |-> compute_hash(index, timestamp, votes, previous_hash, nonce)]

to_dict(b) ==
    [index |-> b.index, timestamp |-> b.timestamp, votes |-> b.votes,
     previous_hash |-> b.previous_hash, nonce |-> b.nonce, hash |-> b.hash]

from_dict(data) ==
    [Block(data.index, data.timestamp, data.votes, data.previous_hash, data.nonce)
        EXCEPT !.hash = data.hash]

RECURSIVE _proof_of_work(_)
_proof_of_work(block) ==
    IF StartsWithZeros(block.hash) THEN block
    ELSE _proof_of_work([block EXCEPT !.nonce = block.nonce + 1,
                                      !.hash = _compute_hash([block EXCEPT !.nonce = block.nonce + 1])])

\* a validation that follows the links and does not recompute the hashes
_is_valid_links_only(ch) ==
    \A i \in 2..Len(ch) : ch[i].previous_hash = ch[i - 1].hash

_is_valid(ch) ==
    \A i \in 2..Len(ch) :
        /\ ch[i].hash = _compute_hash(ch[i])
        /\ ch[i].previous_hash = ch[i - 1].hash

verify_chain(ch) == [valid |-> _is_valid(ch), block_count |-> Len(ch)]

get_chain(ch) == [i \in 1..Len(ch) |-> to_dict(ch[i])]

genesis(t) == Block(0, t, <<>>, ZeroHash, 0)

----------------------------------------------------------------------------
(* blockchain.py: the persisted document *)

RECURSIVE list(_)
list(S) == IF S = {} THEN <<>> ELSE LET x == CHOOSE y \in S : TRUE IN <<x>> \o list(S \ {x})

set(l) == {l[i] : i \in 1..Len(l)}

\* what _save writes: json.dump of the chain and the spent-set
Document(ch, spent) ==
    [chain |-> [i \in 1..Len(ch) |-> to_dict(ch[i])], spent_tokens |-> list(spent)]

NoFile == [state |-> "absent"]
Truncated == [state |-> "empty"]
Partial == [state |-> "partial"]
Complete(doc) == [state |-> "complete", doc |-> doc]

\* json.load succeeds on a complete document only
Parses(f) == f.state = "complete"

\* what _load_or_init leaves in a new instance (spent_tokens starts empty), given
\* the file and the time; reinit: it fell through to the genesis block and _save
_load_or_init(f, t) ==
    LET loaded == [i \in 1..Len(f.doc.chain) |-> from_dict(f.doc.chain[i])] IN
    IF f.state # "absent" /\ Parses(f) /\ _is_valid(loaded)
    THEN [chain |-> loaded, spent_tokens |-> set(f.doc.spent_tokens), reinit |-> FALSE]
    ELSE [chain |-> <<genesis(t)>>,
          spent_tokens |-> IF f.state # "absent" /\ Parses(f)
                           THEN set(f.doc.spent_tokens) ELSE {},
          reinit |-> TRUE]

----------------------------------------------------------------------------
(* what a call returns *)

NoResult ==
    [kind |-> "none", success |-> FALSE, tx_hash |-> <<>>,
     block_index |-> -1, error |-> "", status |-> 0]
\* cast_vote's success dict; status is the HTTP status, 0 for a direct caller
Accepted(block, status) ==
    [kind |-> "return", success |-> TRUE, tx_hash |-> block.hash,
     block_index |-> block.index, error |-> "", status |-> status]
Rejected(error, status) ==
    [kind |-> "return", success |-> FALSE, tx_hash |-> <<>>,
     block_index |-> -1, error |-> error, status |-> status]
Raised(exception) ==
    [kind |-> "raise", success |-> FALSE, tx_hash |-> <<>>,
     block_index |-> -1, error |-> exception, status |-> 0]

\* the value a function other than cast_vote returns
Returned(value) == [kind |-> "return", success |-> TRUE, value |-> value, error |-> ""]

InvalidCandidate == "Invalid candidate"
DoubleVote == "Token already used"
InvalidCredential == "Invalid token signature"
MalformedCredential == "Malformed credential"
FieldsRequired == "token_hex, signature_b64, and candidate are required"

\* the HTTP status api_vote gives a ledger result
WithStatus(r) == [r EXCEPT !.status = IF r.success THEN 200 ELSE 400]

----------------------------------------------------------------------------
(* the inputs of the calls *)

TokenHashInputs == {token_hash(t) : t \in Tokens}
\* two members of CANDIDATES, a name outside it, and the empty string
CandidateInputs == {CANDIDATES[1], CANDIDATES[2], "NotACandidate"}
ApiCandidateInputs == {CANDIDATES[1], "NotACandidate", ""}

token_to_hex(token) == <<"hex", token>>
\* bytes.fromhex raises on a string that is not hex
IsHex(hex_str) == hex_str = <<>> \/ hex_str[1] = "hex"
hex_to_token(hex_str) == hex_str[2]
TokenHexInputs == {token_to_hex(t) : t \in Tokens} \cup {<<"zz", 0>>, <<>>}

\* the issuer's credentials, one signed by another key, one with a zero byte
\* in front, and the empty string
SigInputs ==
    {Credential(t, IssuerKey) : t \in Tokens}
        \cup {Credential(1, OtherKey), <<0>> \o Credential(1, IssuerKey), <<>>}

\* sig_b64[:64], with ExcerptLen for 64
ExcerptLen == 2
excerpt(sig_b64) == SubSeq(sig_b64, 1, IF Len(sig_b64) < ExcerptLen THEN Len(sig_b64) ELSE ExcerptLen)
\* what a direct caller passes as signature_hex: the excerpt of a credential
\* of the issuer, or a string that is no credential (the tests' "sig")
SignatureInputs == {excerpt(Credential(1, IssuerKey)), <<0>>}

----------------------------------------------------------------------------
(* blockchain.py: Blockchain.cast_vote, as one step (Spec) *)

\* a vote record that names the voter
vote_record_with_voter(th, candidate, t, signature_hex) ==
    [token_hash |-> th, candidate |-> candidate, timestamp |-> t, signature |-> signature_hex,
     voter_id |-> "VOTER_00001"]

vote_record(th, candidate, t, signature_hex) ==
    [token_hash |-> th, candidate |-> candidate, timestamp |-> t, signature |-> signature_hex]

\* a block that does not point at the block before it
mined_block_unlinked(ch, vote, t) == _proof_of_work(Block(Len(ch), t, <<vote>>, ZeroHash, 0))

\* a block numbered with the index of the last block
mined_block_last_index(ch, vote, t) ==
    _proof_of_work(Block(Len(ch) - 1, t, <<vote>>, ch[Len(ch)].hash, 0))

\* the block cast_vote builds and mines on top of ch
mined_block(ch, vote, t) == _proof_of_work(Block(Len(ch), t, <<vote>>, ch[Len(ch)].hash, 0))

\* a _save that leaves the spent-set out of the document
_save_chain_only(ch, spent) == Complete(Document(ch, {}))

\* _save, when the write succeeds
_save(ch, spent) == Complete(Document(ch, spent))

\* the inner loops of get_tallies: the votes for candidate c in the blocks
\* from position i on
RECURSIVE tally(_, _, _)
tally(ch, c, i) ==
    IF i > Len(ch) THEN 0
    ELSE Cardinality({k \in 1..Len(ch[i].votes) : ch[i].votes[k].candidate = c})
            + tally(ch, c, i + 1)

\* a count that skips the first block after the genesis block as well
get_tallies_skips_a_block(ch) == [c \in CandidateSet |-> tally(ch, c, 3)]

\* get_tallies: a key per member of CANDIDATES, the votes of chain[1:]
get_tallies(ch) == [c \in CandidateSet |-> tally(ch, c, 2)]

\* a cast_vote that marks the token spent before it validates the call
cast_vote_marks_first(th, candidate, signature_hex, http) ==
    IF candidate \notin CandidateSet \/ th \in spent_tokens
    THEN /\ result' = Rejected(IF candidate \notin CandidateSet THEN InvalidCandidate ELSE DoubleVote,
                               IF http THEN 400 ELSE 0)
         /\ spent_tokens' = spent_tokens \cup {th}
         /\ UNCHANGED <<chain, pending_votes, file, now, receipts>>
    ELSE \E t1, t2 \in Times :
         /\ now <= t1 /\ t1 <= t2
         /\ LET block == mined_block(chain, vote_record(th, candidate, t1, signature_hex), t2) IN
            /\ spent_tokens' = spent_tokens \cup {th}
            /\ chain' = Append(chain, block)
            /\ pending_votes' = <<>>
            /\ file' = _save(chain', spent_tokens')
            /\ now' = t2
            /\ result' = Accepted(block, IF http THEN 200 ELSE 0)
            /\ receipts' = Append(receipts, th)

\* a ledger that does not look the nullifier up in the spent-set
cast_vote_no_spent_check(th, candidate, signature_hex, http) ==
    IF candidate \notin CandidateSet
    THEN /\ result' = Rejected(InvalidCandidate, IF http THEN 400 ELSE 0)
         /\ UNCHANGED <<chain, pending_votes, spent_tokens, file, now, receipts>>
    ELSE \E t1, t2 \in Times :
         /\ now <= t1 /\ t1 <= t2
         /\ LET block == mined_block(chain, vote_record(th, candidate, t1, signature_hex), t2) IN
            /\ spent_tokens' = spent_tokens \cup {th}
            /\ chain' = Append(chain, block)
            /\ pending_votes' = <<>>
            /\ file' = _save(chain', spent_tokens')
            /\ now' = t2
            /\ result' = Accepted(block, IF http THEN 200 ELSE 0)
            /\ receipts' = Append(receipts, th)

\* the whole of cast_vote under the lock; status is the caller's HTTP status rule
cast_vote(th, candidate, signature_hex, http) ==
    IF candidate \notin CandidateSet
    THEN /\ result' = Rejected(InvalidCandidate, IF http THEN 400 ELSE 0)
         /\ UNCHANGED <<chain, pending_votes, spent_tokens, file, now, receipts>>
    ELSE IF th \in spent_tokens
    THEN /\ result' = Rejected(DoubleVote, IF http THEN 400 ELSE 0)
         /\ UNCHANGED <<chain, pending_votes, spent_tokens, file, now, receipts>>
    ELSE IF chain = <<>>
    \* self.chain[-1] of line 168 raises IndexError, after lines 153 and 163
    THEN \E t1 \in Times :
         /\ now <= t1
         /\ spent_tokens' = spent_tokens \cup {th}
         /\ pending_votes' = Append(pending_votes, vote_record(th, candidate, t1, signature_hex))
         /\ now' = t1
         /\ result' = Raised("IndexError")
         /\ UNCHANGED <<chain, file, receipts>>
    ELSE \E t1, t2 \in Times :
         /\ now <= t1 /\ t1 <= t2
         /\ LET block == mined_block(chain, vote_record(th, candidate, t1, signature_hex), t2) IN
            /\ spent_tokens' = spent_tokens \cup {th}
            /\ chain' = Append(chain, block)
            /\ pending_votes' = <<>>
            /\ file' = _save(chain', spent_tokens')
            /\ now' = t2
            /\ result' = Accepted(block, IF http THEN 200 ELSE 0)
            /\ receipts' = Append(receipts, th)

\* a caller of the ledger other than the endpoint (the tests of blockchain.py)
CastVote ==
    \E th \in TokenHashInputs, c \in CandidateInputs, s \in SignatureInputs :
        /\ cast_vote(th, c, s, FALSE)
        /\ UNCHANGED <<faultVars, concVars, dbVars, regVars>>

----------------------------------------------------------------------------
(* api.py: api_vote *)

\* an endpoint that passes every well-formed request on to the ledger
api_vote_check_unverified(token_hex, sig_b64, candidate) ==
    IF token_hex = <<>> \/ sig_b64 = <<>> \/ candidate = ""
    THEN Rejected(FieldsRequired, 400)
    ELSE IF candidate \notin CandidateSet
    THEN Rejected(InvalidCandidate, 400)
    ELSE IF ~IsHex(token_hex) \/ b64decode_raises(sig_b64) \/ issuer_keys = NoRow
    THEN Rejected(MalformedCredential, 400)
    ELSE NoResult

\* an endpoint that looks at the credential before it looks at the candidate
api_vote_check_credential_first(token_hex, sig_b64, candidate) ==
    IF token_hex = <<>> \/ sig_b64 = <<>> \/ candidate = ""
    THEN Rejected(FieldsRequired, 400)
    ELSE IF ~IsHex(token_hex) \/ b64decode_raises(sig_b64) \/ issuer_keys = NoRow
    THEN Rejected(MalformedCredential, 400)
    ELSE IF ~verify_signature(hex_to_token(token_hex), b64_to_int(sig_b64), issuer_keys.public_key)
    THEN Rejected(InvalidCredential, 403)
    ELSE IF candidate \notin CandidateSet
    THEN Rejected(InvalidCandidate, 400)
    ELSE NoResult

\* lines 198-219: what api_vote answers before it calls the ledger; NoResult
\* when it goes on to cast_vote
api_vote_check(token_hex, sig_b64, candidate) ==
    IF token_hex = <<>> \/ sig_b64 = <<>> \/ candidate = ""
    THEN Rejected(FieldsRequired, 400)
    ELSE IF candidate \notin CandidateSet
    THEN Rejected(InvalidCandidate, 400)
    ELSE IF ~IsHex(token_hex) \/ b64decode_raises(sig_b64) \/ issuer_keys = NoRow
    THEN Rejected(MalformedCredential, 400)
    ELSE IF ~verify_signature(hex_to_token(token_hex), b64_to_int(sig_b64), issuer_keys.public_key)
    THEN Rejected(InvalidCredential, 403)
    ELSE NoResult

api_vote(token_hex, sig_b64, candidate) ==
    IF api_vote_check(token_hex, sig_b64, candidate) # NoResult
    THEN /\ result' = api_vote_check(token_hex, sig_b64, candidate)
         /\ UNCHANGED <<chain, pending_votes, spent_tokens, file, now, receipts>>
    ELSE cast_vote(token_hash(hex_to_token(token_hex)), candidate, excerpt(sig_b64), TRUE)

ApiVote ==
    \E token_hex \in TokenHexInputs, sig_b64 \in SigInputs, c \in ApiCandidateInputs :
        /\ api_vote(token_hex, sig_b64, c)
        /\ UNCHANGED <<faultVars, concVars, dbVars, regVars>>

----------------------------------------------------------------------------
(* blockchain.py: Blockchain.__init__ on a restart of the process *)

\* time.time() is read on the genesis path only
Restart ==
    \E t \in Times :
        /\ now <= t
        /\ LET l == _load_or_init(file, t) IN
           /\ chain' = l.chain
           /\ spent_tokens' = l.spent_tokens
           /\ pending_votes' = <<>>
           /\ file' = IF l.reinit THEN _save(l.chain, l.spent_tokens) ELSE file
           /\ now' = IF l.reinit THEN t ELSE now
        /\ result' = NoResult
        /\ UNCHANGED <<receipts, faultVars, concVars, dbVars, regVars>>

----------------------------------------------------------------------------
(* the state the other specifications' variables rest in *)


SingletonIdle == _blockchain_instance = 0 /\ _blockchain_lock = 0
FaultIdle == lpc = "idle" /\ SingletonIdle
ConcIdle ==
    /\ lock = 0
    /\ pc = [t \in Threads |-> "idle"]
    /\ arg = [t \in Threads |-> <<>>]
    /\ ret = [t \in Threads |-> NoResult]
RegIdle ==
    /\ rpc = [t \in Threads |-> "idle"]
    /\ rarg = [t \in Threads |-> <<>>]
    /\ rloc = [t \in Threads |-> <<>>]
    /\ rret = [t \in Threads |-> NoResult]
\* voter ids: two that the administrator may seed, one that is never seeded
SeedableIds == {"VOTER_00001", "VOTER_00002"}
VoterIds == SeedableIds \cup {"GHOST"}

\* table voters: no row for a voter id, and the row register_voter writes
NoVoter == [present |-> FALSE, token_issued |-> FALSE]
IssuedRow == [present |-> TRUE, token_issued |-> TRUE]

\* the registry after bootstrap(): tables created, the issuer's keys stored
DbBootstrapped ==
    /\ eligible_voters = {}
    /\ voters = [v \in VoterIds |-> NoVoter]
    /\ issuer_keys = KeyRow(IssuerKey)

\* a Blockchain constructed with no chain file
Init ==
    /\ \E t \in Times :
        /\ chain = <<genesis(t)>>
        /\ file = _save(<<genesis(t)>>, {})
        /\ now = t
    /\ pending_votes = <<>>
    /\ spent_tokens = {}
    /\ result = NoResult
    /\ receipts = <<>>
    /\ FaultIdle /\ ConcIdle /\ RegIdle /\ DbBootstrapped

\* the deployed program: votes arrive through the endpoint
Next == ApiVote \/ Restart

Spec == Init /\ [][Next]_vars

\* the ledger alone, called directly
NextLedger == CastVote \/ Restart

SpecLedger == Init /\ [][NextLedger]_vars

----------------------------------------------------------------------------
(* SpecFault: cast_vote and __init__ with _save taken statement by statement. *)
(* lpc: "down" (no process), "idle" (between calls), and inside _save of      *)
(* cast_vote or of _load_or_init: "cast_open" / "init_open" before the open   *)
(* of line 115, "cast_dump" / "init_dump" before the json.dump of line 116.   *)

\* cast_vote up to the call of _save (lines 143-173)
FCastVote ==
    /\ lpc = "idle"
    /\ \E th \in TokenHashInputs, c \in CandidateInputs, s \in SignatureInputs :
        IF c \notin CandidateSet
        THEN /\ result' = Rejected(InvalidCandidate, 0)
             /\ UNCHANGED <<chain, pending_votes, spent_tokens, now, lpc>>
        ELSE IF th \in spent_tokens
        THEN /\ result' = Rejected(DoubleVote, 0)
             /\ UNCHANGED <<chain, pending_votes, spent_tokens, now, lpc>>
        ELSE \E t1, t2 \in Times :
             /\ Len(receipts) < MaxReceipts
             /\ now <= t1 /\ t1 <= t2
             /\ spent_tokens' = spent_tokens \cup {th}
             /\ chain' = Append(chain, mined_block(chain, vote_record(th, c, t1, s), t2))
             /\ pending_votes' = <<>>
             /\ now' = t2
             /\ result' = NoResult
             /\ lpc' = "cast_open"
    /\ UNCHANGED <<file, receipts, concVars, dbVars, regVars>>
    /\ UNCHANGED singletonVars

\* open(CHAIN_FILE, "w") truncates the file
SaveOpen ==
    /\ lpc \in {"cast_open", "init_open"}
    /\ file' = Truncated
    /\ lpc' = IF lpc = "cast_open" THEN "cast_dump" ELSE "init_dump"
    /\ UNCHANGED <<chain, pending_votes, spent_tokens, now, result, receipts,
                   concVars, dbVars, regVars>>
    /\ UNCHANGED singletonVars

\* mkdir or open raises OSError: the file is as it was; the exception leaves
\* cast_vote (the with statement releases the lock) or the constructor
SaveOpenRaises ==
    /\ lpc \in {"cast_open", "init_open"}
    /\ result' = Raised("OSError")
    /\ lpc' = IF lpc = "cast_open" THEN "idle" ELSE "down"
    /\ UNCHANGED <<chain, pending_votes, spent_tokens, file, now, receipts,
                   concVars, dbVars, regVars>>
    /\ UNCHANGED singletonVars

\* json.dump writes the document; cast_vote returns its success dict
SaveDump ==
    /\ lpc \in {"cast_dump", "init_dump"}
    /\ file' = _save(chain, spent_tokens)
    /\ IF lpc = "cast_dump"
       THEN /\ result' = Accepted(chain[Len(chain)], 0)
            /\ receipts' = Append(receipts, chain[Len(chain)].votes[1].token_hash)
       ELSE /\ result' = NoResult
            /\ UNCHANGED receipts
    /\ lpc' = "idle"
    /\ UNCHANGED <<chain, pending_votes, spent_tokens, now, concVars, dbVars, regVars>>
    /\ UNCHANGED singletonVars

\* a write raises OSError part-way: some or none of the document is in the file
SaveDumpRaises ==
    /\ lpc \in {"cast_dump", "init_dump"}
    /\ file' \in {Truncated, Partial}
    /\ result' = Raised("OSError")
    /\ lpc' = IF lpc = "cast_dump" THEN "idle" ELSE "down"
    /\ UNCHANGED <<chain, pending_votes, spent_tokens, now, receipts,
                   concVars, dbVars, regVars>>
    /\ UNCHANGED singletonVars

\* the process stops (kill, power loss): memory is gone, the file stays as the
\* last write left it
Crash ==
    /\ lpc # "down"
    /\ file' \in IF lpc \in {"cast_dump", "init_dump"} THEN {Truncated, Partial} ELSE {file}
    /\ chain' = <<>>
    /\ spent_tokens' = {}
    /\ pending_votes' = <<>>
    /\ result' = NoResult
    /\ lpc' = "down"
    /\ UNCHANGED <<now, receipts, concVars, dbVars, regVars>>
    /\ UNCHANGED singletonVars

\* Blockchain(): _load_or_init up to its call of _save
Start ==
    /\ lpc = "down"
    /\ \E t \in Times :
        /\ now <= t
        /\ LET l == _load_or_init(file, t) IN
           /\ chain' = l.chain
           /\ spent_tokens' = l.spent_tokens
           /\ now' = IF l.reinit THEN t ELSE now
           /\ lpc' = IF l.reinit THEN "init_open" ELSE "idle"
    /\ pending_votes' = <<>>
    /\ result' = NoResult
    /\ UNCHANGED <<file, receipts, concVars, dbVars, regVars>>
    /\ UNCHANGED singletonVars

\* no process yet, no chain file
InitFault ==
    /\ chain = <<>>
    /\ pending_votes = <<>>
    /\ spent_tokens = {}
    /\ file = NoFile
    /\ now \in Times
    /\ result = NoResult
    /\ receipts = <<>>
    /\ lpc = "down"
    /\ SingletonIdle
    /\ ConcIdle /\ RegIdle /\ DbBootstrapped

NextFault ==
    \/ FCastVote
    \/ SaveOpen
    \/ SaveOpenRaises
    \/ SaveDump
    \/ SaveDumpRaises
    \/ Crash
    \/ Start

SpecFault == InitFault /\ [][NextFault]_vars

----------------------------------------------------------------------------
(* SpecLoad: a process started on a chain file it did not necessarily write   *)
(* (edited, damaged or hand-made), then called directly. lpc is "down" or     *)
(* "idle".                                                                    *)

\* a ballot of the first token for the first candidate, and the chain that
\* holds it
SignedVote == vote_record(token_hash(1), CANDIDATES[1], 0, excerpt(Credential(1, IssuerKey)))
OneVoteChain == <<genesis(0), mined_block(<<genesis(0)>>, SignedVote, 0)>>

\* chain[i].votes[k][field] = value, hashes left as they are
tamper(ch, i, k, field, value) == [ch EXCEPT ![i].votes[k][field] = value]

\* what may be at CHAIN_FILE when the process starts: nothing, an empty or a
\* cut-off file, a document the ledger wrote, {"chain": [], "spent_tokens": []},
\* a written document with a vote edited, and one with a link broken
FileInputs ==
    {NoFile, Truncated, Partial,
     _save(<<genesis(0)>>, {}),
     _save(OneVoteChain, {token_hash(1)}),
     Complete([chain |-> <<>>, spent_tokens |-> <<>>]),
     _save(tamper(OneVoteChain, 2, 1, "candidate", CANDIDATES[2]), {token_hash(1)}),
     _save([OneVoteChain EXCEPT ![2].previous_hash = ZeroHash], {token_hash(1)})}

\* Blockchain(): the whole constructor, _save included
Load ==
    /\ lpc = "down"
    /\ \E t \in Times :
        /\ now <= t
        /\ LET l == _load_or_init(file, t) IN
           /\ chain' = l.chain
           /\ spent_tokens' = l.spent_tokens
           /\ file' = IF l.reinit THEN _save(l.chain, l.spent_tokens) ELSE file
           /\ now' = IF l.reinit THEN t ELSE now
    /\ pending_votes' = <<>>
    /\ result' = NoResult
    /\ lpc' = "idle"
    /\ UNCHANGED <<receipts, concVars, dbVars, regVars>>
    /\ UNCHANGED singletonVars

LCastVote ==
    /\ lpc = "idle"
    /\ \E th \in TokenHashInputs, c \in CandidateInputs, s \in SignatureInputs :
        cast_vote(th, c, s, FALSE)
    /\ UNCHANGED <<faultVars, concVars, dbVars, regVars>>

\* the process exits between two calls; the file stays
Stop ==
    /\ lpc = "idle"
    /\ chain' = <<>>
    /\ spent_tokens' = {}
    /\ pending_votes' = <<>>
    /\ result' = NoResult
    /\ lpc' = "down"
    /\ UNCHANGED <<file, now, receipts, concVars, dbVars, regVars>>
    /\ UNCHANGED singletonVars

InitLoad ==
    /\ chain = <<>>
    /\ pending_votes = <<>>
    /\ spent_tokens = {}
    /\ file \in FileInputs
    /\ now \in Times
    /\ result = NoResult
    /\ receipts = <<>>
    /\ lpc = "down"
    /\ SingletonIdle
    /\ ConcIdle /\ RegIdle /\ DbBootstrapped

NextLoad == Load \/ LCastVote \/ Stop

SpecLoad == InitLoad /\ [][NextLoad]_vars

----------------------------------------------------------------------------
(* SpecConc: threads inside Blockchain.cast_vote, one call each, a step per   *)
(* statement. arg[t] holds the method called, the call's arguments, its       *)
(* locals vote_record and block, and in acquired how many acquisitions of the *)
(* lock came before its own (a record of the order, not a value of the code). *)

\* what the threads pass: a candidate of the whitelist or a name outside it,
\* and one signature excerpt
ConcCandidateInputs == {CANDIDATES[1], "NotACandidate"}
ConcSignatureInputs == {excerpt(Credential(1, IssuerKey))}

NoBlock == [index |-> -1]
NoVote == [token_hash |-> -1]

\* a thread calls cast_vote
CCall(t) ==
    /\ pc[t] = "idle"
    /\ \E th \in TokenHashInputs, c \in ConcCandidateInputs, s \in ConcSignatureInputs :
        arg' = [arg EXCEPT ![t] = [op |-> "cast_vote", acquired |-> -1,
                                   token_hash |-> th, candidate |-> c, signature_hex |-> s,
                                   vote_record |-> NoVote, block |-> NoBlock]]
    /\ pc' = [pc EXCEPT ![t] = "acquire"]
    /\ UNCHANGED <<ledgerVars, faultVars, lock, ret, dbVars, regVars>>

\* the calls that have acquired the lock so far
Acquisitions == Cardinality({u \in Threads : pc[u] # "idle" /\ arg[u].acquired >= 0})

\* an acquire that does not wait for the holder to release
CAcquire_no_wait(t) ==
    /\ pc[t] = "acquire"
    /\ lock' = t
    /\ arg' = [arg EXCEPT ![t].acquired = Acquisitions]
    /\ pc' = [pc EXCEPT ![t] = "check_candidate"]
    /\ UNCHANGED <<ledgerVars, faultVars, ret, dbVars, regVars>>

\* line 143: with self._lock
CAcquire(t) ==
    /\ pc[t] = "acquire"
    /\ lock = 0
    /\ lock' = t
    /\ arg' = [arg EXCEPT ![t].acquired = Acquisitions]
    /\ pc' = [pc EXCEPT ![t] = "check_candidate"]
    /\ UNCHANGED <<ledgerVars, faultVars, ret, dbVars, regVars>>

\* lines 145-146: a return inside the with statement releases the lock
CCheckCandidate(t) ==
    /\ pc[t] = "check_candidate"
    /\ IF arg[t].candidate \notin CandidateSet
       THEN /\ ret' = [ret EXCEPT ![t] = Rejected(InvalidCandidate, 0)]
            /\ lock' = 0
            /\ pc' = [pc EXCEPT ![t] = "done"]
       ELSE /\ pc' = [pc EXCEPT ![t] = "check_spent"]
            /\ UNCHANGED <<ret, lock>>
    /\ UNCHANGED <<ledgerVars, faultVars, arg, dbVars, regVars>>

\* lines 149-150
CCheckSpent(t) ==
    /\ pc[t] = "check_spent"
    /\ IF arg[t].token_hash \in spent_tokens
       THEN /\ ret' = [ret EXCEPT ![t] = Rejected(DoubleVote, 0)]
            /\ lock' = 0
            /\ pc' = [pc EXCEPT ![t] = "done"]
       ELSE /\ pc' = [pc EXCEPT ![t] = "mark_spent"]
            /\ UNCHANGED <<ret, lock>>
    /\ UNCHANGED <<ledgerVars, faultVars, arg, dbVars, regVars>>

\* a thread that lets go of the lock once it has marked the token
CMarkSpent_unlocks(t) ==
    /\ pc[t] = "mark_spent"
    /\ spent_tokens' = spent_tokens \cup {arg[t].token_hash}
    /\ lock' = 0
    /\ pc' = [pc EXCEPT ![t] = "record"]
    /\ UNCHANGED <<chain, pending_votes, file, now, result, receipts,
                   faultVars, arg, ret, dbVars, regVars>>

\* line 153
CMarkSpent(t) ==
    /\ pc[t] = "mark_spent"
    /\ spent_tokens' = spent_tokens \cup {arg[t].token_hash}
    /\ pc' = [pc EXCEPT ![t] = "record"]
    /\ UNCHANGED <<chain, pending_votes, file, now, result, receipts,
                   faultVars, lock, arg, ret, dbVars, regVars>>

\* lines 156-162
CRecord(t) ==
    /\ pc[t] = "record"
    /\ \E t1 \in Times :
        /\ now <= t1
        /\ now' = t1
        /\ arg' = [arg EXCEPT ![t].vote_record =
                      vote_record(arg[t].token_hash, arg[t].candidate, t1, arg[t].signature_hex)]
        /\ pending_votes' = Append(pending_votes, arg'[t].vote_record)
    /\ pc' = [pc EXCEPT ![t] = "mine"]
    /\ UNCHANGED <<chain, spent_tokens, file, result, receipts,
                   faultVars, lock, ret, dbVars, regVars>>

\* lines 165-171
CMine(t) ==
    /\ pc[t] = "mine"
    /\ \E t2 \in Times :
        /\ now <= t2
        /\ now' = t2
        /\ arg' = [arg EXCEPT ![t].block = mined_block(chain, arg[t].vote_record, t2)]
    /\ pc' = [pc EXCEPT ![t] = "append"]
    /\ UNCHANGED <<chain, pending_votes, spent_tokens, file, result, receipts,
                   faultVars, lock, ret, dbVars, regVars>>

\* an append that writes the new block over the last one
CAppend_over_last(t) ==
    /\ pc[t] = "append"
    /\ chain' = [chain EXCEPT ![Len(chain)] = arg[t].block]
    /\ pc' = [pc EXCEPT ![t] = "clear"]
    /\ UNCHANGED <<pending_votes, spent_tokens, file, now, result, receipts,
                   faultVars, lock, arg, ret, dbVars, regVars>>

\* line 172
CAppend(t) ==
    /\ pc[t] = "append"
    /\ chain' = Append(chain, arg[t].block)
    /\ pc' = [pc EXCEPT ![t] = "clear"]
    /\ UNCHANGED <<pending_votes, spent_tokens, file, now, result, receipts,
                   faultVars, lock, arg, ret, dbVars, regVars>>

\* line 173
CClear(t) ==
    /\ pc[t] = "clear"
    /\ pending_votes' = <<>>
    /\ pc' = [pc EXCEPT ![t] = "save"]
    /\ UNCHANGED <<chain, spent_tokens, file, now, result, receipts,
                   faultVars, lock, arg, ret, dbVars, regVars>>

\* line 174
CSave(t) ==
    /\ pc[t] = "save"
    /\ file' = _save(chain, spent_tokens)
    /\ pc' = [pc EXCEPT ![t] = "return"]
    /\ UNCHANGED <<chain, pending_votes, spent_tokens, now, result, receipts,
                   faultVars, lock, arg, ret, dbVars, regVars>>

\* lines 176-180: the return releases the lock
CReturn(t) ==
    /\ pc[t] = "return"
    /\ ret' = [ret EXCEPT ![t] = Accepted(arg[t].block, 0)]
    /\ receipts' = Append(receipts, arg[t].token_hash)
    /\ lock' = 0
    /\ pc' = [pc EXCEPT ![t] = "done"]
    /\ UNCHANGED <<chain, pending_votes, spent_tokens, file, now, result,
                   faultVars, arg, dbVars, regVars>>

NextConc ==
    \E t \in Threads :
        \/ CCall(t)
        \/ CAcquire(t)
        \/ CCheckCandidate(t)
        \/ CCheckSpent(t)
        \/ CMarkSpent(t)
        \/ CRecord(t)
        \/ CMine(t)
        \/ CAppend(t)
        \/ CClear(t)
        \/ CSave(t)
        \/ CReturn(t)

SpecConc == Init /\ [][NextConc]_vars

----------------------------------------------------------------------------
(* SpecRead: the threads of SpecConc, and threads that call get_stats or      *)
(* get_chain, one call each.                                                  *)

ReadOps == {"get_stats", "get_chain"}

\* a thread calls a reading method
QCall(t) ==
    /\ pc[t] = "idle"
    /\ \E op \in ReadOps : arg' = [arg EXCEPT ![t] = [op |-> op, acquired |-> -1, total_votes |-> 0]]
    /\ pc' = [pc EXCEPT ![t] = "read_acquire"]
    /\ UNCHANGED <<ledgerVars, faultVars, lock, ret, dbVars, regVars>>

\* lines 202 and 212: with self._lock
QAcquire(t) ==
    /\ pc[t] = "read_acquire"
    /\ lock = 0
    /\ lock' = t
    /\ arg' = [arg EXCEPT ![t].acquired = Acquisitions]
    /\ pc' = [pc EXCEPT ![t] = arg[t].op]
    /\ UNCHANGED <<ledgerVars, faultVars, ret, dbVars, regVars>>

RECURSIVE count_votes(_, _)
\* sum(len(b.votes) for b in self.chain[1:]), from the block at position i on
count_votes(ch, i) == IF i > Len(ch) THEN 0 ELSE Len(ch[i].votes) + count_votes(ch, i + 1)

\* line 213: total_votes
QTotalVotes(t) ==
    /\ pc[t] = "get_stats"
    /\ arg' = [arg EXCEPT ![t].total_votes = count_votes(chain, 2)]
    /\ pc' = [pc EXCEPT ![t] = "get_stats_return"]
    /\ UNCHANGED <<ledgerVars, faultVars, lock, ret, dbVars, regVars>>

\* lines 214-219: the dict get_stats returns; the return releases the lock
QStatsReturn(t) ==
    /\ pc[t] = "get_stats_return"
    /\ ret' = [ret EXCEPT ![t] =
                  Returned([block_count |-> Len(chain), total_votes |-> arg[t].total_votes,
                            spent_tokens |-> Cardinality(spent_tokens)])]
    /\ lock' = 0
    /\ pc' = [pc EXCEPT ![t] = "done"]
    /\ UNCHANGED <<ledgerVars, faultVars, arg, dbVars, regVars>>

\* line 203: get_chain returns the blocks as dicts and releases the lock
QGetChain(t) ==
    /\ pc[t] = "get_chain"
    /\ ret' = [ret EXCEPT ![t] = Returned(get_chain(chain))]
    /\ lock' = 0
    /\ pc' = [pc EXCEPT ![t] = "done"]
    /\ UNCHANGED <<ledgerVars, faultVars, arg, dbVars, regVars>>

NextRead ==
    \E t \in Threads :
        \/ CCall(t)
        \/ CAcquire(t)
        \/ CCheckCandidate(t)
        \/ CCheckSpent(t)
        \/ CMarkSpent(t)
        \/ CRecord(t)
        \/ CMine(t)
        \/ CAppend(t)
        \/ CClear(t)
        \/ CSave(t)
        \/ CReturn(t)
        \/ QCall(t)
        \/ QAcquire(t)
        \/ QTotalVotes(t)
        \/ QStatsReturn(t)
        \/ QGetChain(t)

SpecRead == Init /\ [][NextRead]_vars

----------------------------------------------------------------------------
(* SpecLive: the threads of SpecRead, verify_chain among the reading calls,   *)
(* and the exceptions that leave cast_vote while it mines or saves, under a   *)
(* scheduler that lets every thread that can take a step take one.            *)

\* an exception that leaves cast_vote with the lock still held
CSaveRaises_keeps_lock(t) ==
    /\ pc[t] = "save"
    /\ file' \in {file, Truncated, Partial}
    /\ ret' = [ret EXCEPT ![t] = Raised("OSError")]
    /\ pc' = [pc EXCEPT ![t] = "done"]
    /\ UNCHANGED <<chain, pending_votes, spent_tokens, now, result, receipts,
                   faultVars, lock, arg, dbVars, regVars>>

\* line 174: _save raises OSError, before the file is opened or while it is
\* written; the exception leaves the with statement, which releases the lock
CSaveRaises(t) ==
    /\ pc[t] = "save"
    /\ file' \in {file, Truncated, Partial}
    /\ ret' = [ret EXCEPT ![t] = Raised("OSError")]
    /\ lock' = 0
    /\ pc' = [pc EXCEPT ![t] = "done"]
    /\ UNCHANGED <<chain, pending_votes, spent_tokens, now, result, receipts,
                   faultVars, arg, dbVars, regVars>>

\* lines 165-171: an exception while the block is built and mined leaves the
\* with statement
CMineRaises(t) ==
    /\ pc[t] = "mine"
    /\ ret' = [ret EXCEPT ![t] = Raised("MemoryError")]
    /\ lock' = 0
    /\ pc' = [pc EXCEPT ![t] = "done"]
    /\ UNCHANGED <<ledgerVars, faultVars, arg, dbVars, regVars>>

\* a thread calls cast_vote for the first token
LCall(t) ==
    /\ pc[t] = "idle"
    /\ \E c \in ConcCandidateInputs, s \in ConcSignatureInputs :
        arg' = [arg EXCEPT ![t] = [op |-> "cast_vote", acquired |-> -1,
                                   token_hash |-> token_hash(1), candidate |-> c,
                                   signature_hex |-> s,
                                   vote_record |-> NoVote, block |-> NoBlock]]
    /\ pc' = [pc EXCEPT ![t] = "acquire"]
    /\ UNCHANGED <<ledgerVars, faultVars, lock, ret, dbVars, regVars>>

\* a thread calls verify_chain
QCallVerify(t) ==
    /\ pc[t] = "idle"
    /\ arg' = [arg EXCEPT ![t] = [op |-> "verify_chain", acquired |-> -1, total_votes |-> 0]]
    /\ pc' = [pc EXCEPT ![t] = "read_acquire"]
    /\ UNCHANGED <<ledgerVars, faultVars, lock, ret, dbVars, regVars>>

\* lines 239-245: verify_chain returns its dict and releases the lock
QVerifyChain(t) ==
    /\ pc[t] = "verify_chain"
    /\ ret' = [ret EXCEPT ![t] = Returned(verify_chain(chain))]
    /\ lock' = 0
    /\ pc' = [pc EXCEPT ![t] = "done"]
    /\ UNCHANGED <<ledgerVars, faultVars, arg, dbVars, regVars>>

\* the steps of a thread inside a call
Proceed(t) ==
    \/ CAcquire(t) \/ CCheckCandidate(t) \/ CCheckSpent(t) \/ CMarkSpent(t) \/ CRecord(t)
    \/ CMine(t) \/ CMineRaises(t) \/ CAppend(t) \/ CClear(t) \/ CSave(t) \/ CSaveRaises(t)
    \/ CReturn(t)
    \/ QAcquire(t) \/ QTotalVotes(t) \/ QStatsReturn(t) \/ QGetChain(t) \/ QVerifyChain(t)

NextLive == \E t \in Threads : LCall(t) \/ QCall(t) \/ QCallVerify(t) \/ Proceed(t)

SpecLive == Init /\ [][NextLive]_vars /\ \A t \in Threads : WF_vars(Proceed(t))

----------------------------------------------------------------------------
(* SpecSingleton: threads inside get_blockchain, one call each, a step per    *)
(* statement, in a process that has no Blockchain yet and whatever chain file *)
(* SpecLoad starts on. arg[t].constructed records that the call of thread t   *)
(* ran the constructor.                                                       *)

SingletonFrame == UNCHANGED <<ledgerVars, lpc, lock, dbVars, regVars>>

\* a thread calls get_blockchain
GCall(t) ==
    /\ pc[t] = "idle"
    /\ arg' = [arg EXCEPT ![t] = [op |-> "get_blockchain", acquired |-> -1, constructed |-> FALSE]]
    /\ pc' = [pc EXCEPT ![t] = "check"]
    /\ UNCHANGED <<singletonVars, ret>>
    /\ SingletonFrame

\* line 255: if _blockchain_instance is None
GCheck(t) ==
    /\ pc[t] = "check"
    /\ pc' = [pc EXCEPT ![t] = IF _blockchain_instance = 0 THEN "lock" ELSE "return"]
    /\ UNCHANGED <<singletonVars, arg, ret>>
    /\ SingletonFrame

\* line 256: with _blockchain_lock
GLock(t) ==
    /\ pc[t] = "lock"
    /\ _blockchain_lock = 0
    /\ _blockchain_lock' = t
    /\ arg' = [arg EXCEPT ![t].acquired = Acquisitions]
    /\ pc' = [pc EXCEPT ![t] = "recheck"]
    /\ UNCHANGED <<_blockchain_instance, ret>>
    /\ SingletonFrame

\* a second look that never finds the instance
GRecheck_skipped(t) ==
    /\ pc[t] = "recheck"
    /\ pc' = [pc EXCEPT ![t] = "construct"]
    /\ UNCHANGED <<singletonVars, arg, ret>>
    /\ SingletonFrame

\* line 257: if _blockchain_instance is None, inside the with statement;
\* when it is not, the with statement ends and the lock is released
GRecheck(t) ==
    /\ pc[t] = "recheck"
    /\ IF _blockchain_instance = 0
       THEN /\ pc' = [pc EXCEPT ![t] = "construct"]
            /\ UNCHANGED _blockchain_lock
       ELSE /\ pc' = [pc EXCEPT ![t] = "return"]
            /\ _blockchain_lock' = 0
    /\ UNCHANGED <<_blockchain_instance, arg, ret>>
    /\ SingletonFrame

\* line 258: _blockchain_instance = Blockchain(), the whole constructor with
\* its load-or-init of the chain file; the with statement ends
GConstruct(t) ==
    /\ pc[t] = "construct"
    /\ \E t0 \in Times :
        /\ now <= t0
        /\ LET l == _load_or_init(file, t0) IN
           /\ chain' = l.chain
           /\ spent_tokens' = l.spent_tokens
           /\ file' = IF l.reinit THEN _save(l.chain, l.spent_tokens) ELSE file
           /\ now' = IF l.reinit THEN t0 ELSE now
    /\ pending_votes' = <<>>
    /\ lpc' = "idle"
    /\ _blockchain_instance' = t
    /\ _blockchain_lock' = 0
    /\ arg' = [arg EXCEPT ![t].constructed = TRUE]
    /\ pc' = [pc EXCEPT ![t] = "return"]
    /\ UNCHANGED <<result, receipts, lock, ret, dbVars, regVars>>

\* line 259: return _blockchain_instance
GReturn(t) ==
    /\ pc[t] = "return"
    /\ ret' = [ret EXCEPT ![t] = Returned(_blockchain_instance)]
    /\ pc' = [pc EXCEPT ![t] = "done"]
    /\ UNCHANGED <<singletonVars, arg>>
    /\ SingletonFrame

NextSingleton ==
    \E t \in Threads :
        GCall(t) \/ GCheck(t) \/ GLock(t) \/ GRecheck(t) \/ GConstruct(t) \/ GReturn(t)

SpecSingleton == InitLoad /\ [][NextSingleton]_vars

----------------------------------------------------------------------------
(* SpecQuery: cast_vote and the query and audit methods of one ledger         *)
(* instance, called one after the other. What a method returned is in result. *)

\* Python's None
None == [index |-> -1]

\* a lookup with Python's indexing, where a negative index counts from the end
get_block_from_end(ch, index) ==
    IF 0 <= index /\ index < Len(ch) THEN to_dict(ch[index + 1])
    ELSE IF index < 0 /\ 0 <= Len(ch) + index THEN to_dict(ch[Len(ch) + index + 1])
    ELSE None

\* lines 205-209
get_block(ch, index) ==
    IF 0 <= index /\ index < Len(ch) THEN to_dict(ch[index + 1]) ELSE None

\* lines 211-219
get_stats(ch, spent) ==
    [block_count |-> Len(ch), total_votes |-> count_votes(ch, 2),
     spent_tokens |-> Cardinality(spent)]

\* lines 182-184
is_token_spent(spent, th) == th \in spent

\* what a query method returned, with the method's name
Answered(method, value) ==
    [kind |-> "return", success |-> TRUE, method |-> method, value |-> value, error |-> ""]

QueryFrame == UNCHANGED <<chain, pending_votes, spent_tokens, file, now, receipts,
                          faultVars, concVars, dbVars, regVars>>

\* the indices the callers ask for: one below zero to one past the end
IndexInputs == (0 - 1)..(Len(chain) + 1)

GetChain == result' = Answered("get_chain", get_chain(chain)) /\ QueryFrame

GetBlock ==
    /\ \E index \in IndexInputs : result' = Answered("get_block", get_block(chain, index))
    /\ QueryFrame

GetStats == result' = Answered("get_stats", get_stats(chain, spent_tokens)) /\ QueryFrame

GetTallies == result' = Answered("get_tallies", get_tallies(chain)) /\ QueryFrame

IsTokenSpent ==
    /\ \E th \in TokenHashInputs :
        result' = Answered("is_token_spent", is_token_spent(spent_tokens, th))
    /\ QueryFrame

VerifyChain == result' = Answered("verify_chain", verify_chain(chain)) /\ QueryFrame

\* a direct caller of cast_vote
QCastVote ==
    \E th \in TokenHashInputs, c \in ConcCandidateInputs, s \in ConcSignatureInputs :
        /\ cast_vote(th, c, s, FALSE)
        /\ UNCHANGED <<faultVars, concVars, dbVars, regVars>>

NextQuery ==
    QCastVote \/ GetChain \/ GetBlock \/ GetStats \/ GetTallies \/ IsTokenSpent \/ VerifyChain

SpecQuery == Init /\ [][NextQuery]_vars

----------------------------------------------------------------------------
(* database.py: each function is one transaction *)

\* a check that finds every voter id in the list
is_eligible_any(voter_id) == TRUE

is_eligible(voter_id) == voter_id \in eligible_voters

\* a lookup that finds no row
has_token_issued_no_row(voter_id) == FALSE

has_token_issued(voter_id) ==
    IF ~voters[voter_id].present THEN FALSE ELSE voters[voter_id].token_issued

\* INSERT ... ON CONFLICT DO UPDATE SET token_issued=1 WHERE token_issued=0:
\* table voters after the statement
upsert_voter(voter_id) ==
    [voters EXCEPT ![voter_id] =
        IF ~voters[voter_id].present THEN IssuedRow
        ELSE IF ~voters[voter_id].token_issued THEN IssuedRow
        ELSE voters[voter_id]]

register_voter(voter_id) == voters' = upsert_voter(voter_id)

\* INSERT OR IGNORE INTO eligible_voters
\* a seeding that replaces the table
seed_eligible_voters_replace(voter_ids) == eligible_voters' = voter_ids

seed_eligible_voters(voter_ids) == eligible_voters' = eligible_voters \cup voter_ids

get_issuer_keys == issuer_keys

----------------------------------------------------------------------------
(* voter_registry.py: issue_blind_token, a step per database call (SpecReg) *)

\* blind_token with blinding factor r: the bytes of m * r^e mod n
blind_token(token, r, key) ==
    to_bytes(((SHA256(token) % key.n) * pow(r, key.e, key.n)) % key.n)

\* what the callers send: two blinded tokens, and a string b64decode raises on
BlindedInputs ==
    {blind_token(1, 2, publickey(IssuerKey)), blind_token(2, 4, publickey(IssuerKey)),
     <<CutShort>>}

NotEligible == "Voter ID not found in eligible voters list"
AlreadyIssued == "Token already issued to this voter"
NotInitialized == "Issuer not initialized"
InvalidBase64 == "Invalid base64 encoding for blinded token"

Issued(blind_sig_b64) ==
    [kind |-> "return", success |-> TRUE, blind_sig_b64 |-> blind_sig_b64, error |-> ""]
Refused(error) ==
    [kind |-> "return", success |-> FALSE, blind_sig_b64 |-> <<>>, error |-> error]

\* a thread calls issue_blind_token; after_issue records whether the voter's
\* token_issued flag was already set when the call began
RCall(t) ==
    /\ rpc[t] = "idle"
    /\ \E v \in VoterIds, b \in BlindedInputs :
        rarg' = [rarg EXCEPT ![t] = [voter_id |-> v, blinded_token_b64 |-> b,
                                     after_issue |-> voters[v].token_issued]]
    /\ rloc' = [rloc EXCEPT ![t] = [private_key |-> NoRow.private_key, blind_sig_b64 |-> <<>>]]
    /\ rpc' = [rpc EXCEPT ![t] = "is_eligible"]
    /\ UNCHANGED <<ledgerVars, faultVars, concVars, dbVars, rret>>

\* lines 89-90
RIsEligible(t) ==
    /\ rpc[t] = "is_eligible"
    /\ IF ~is_eligible(rarg[t].voter_id)
       THEN /\ rret' = [rret EXCEPT ![t] = Refused(NotEligible)]
            /\ rpc' = [rpc EXCEPT ![t] = "done"]
       ELSE /\ rpc' = [rpc EXCEPT ![t] = "has_token_issued"]
            /\ UNCHANGED rret
    /\ UNCHANGED <<ledgerVars, faultVars, concVars, dbVars, rarg, rloc>>

\* lines 93-94
RHasTokenIssued(t) ==
    /\ rpc[t] = "has_token_issued"
    /\ IF has_token_issued(rarg[t].voter_id)
       THEN /\ rret' = [rret EXCEPT ![t] = Refused(AlreadyIssued)]
            /\ rpc' = [rpc EXCEPT ![t] = "done"]
       ELSE /\ rpc' = [rpc EXCEPT ![t] = "get_issuer_keys"]
            /\ UNCHANGED rret
    /\ UNCHANGED <<ledgerVars, faultVars, concVars, dbVars, rarg, rloc>>

\* lines 97-99
RGetIssuerKeys(t) ==
    /\ rpc[t] = "get_issuer_keys"
    /\ IF get_issuer_keys = NoRow
       THEN /\ rret' = [rret EXCEPT ![t] = Refused(NotInitialized)]
            /\ rpc' = [rpc EXCEPT ![t] = "done"]
            /\ UNCHANGED rloc
       ELSE /\ rloc' = [rloc EXCEPT ![t].private_key = get_issuer_keys.private_key]
            /\ rpc' = [rpc EXCEPT ![t] = "blind_sign"]
            /\ UNCHANGED rret
    /\ UNCHANGED <<ledgerVars, faultVars, concVars, dbVars, rarg>>

\* lines 102-109: decode, blind_sign, int_to_b64
RBlindSign(t) ==
    /\ rpc[t] = "blind_sign"
    /\ IF b64decode_raises(rarg[t].blinded_token_b64)
       THEN /\ rret' = [rret EXCEPT ![t] = Refused(InvalidBase64)]
            /\ rpc' = [rpc EXCEPT ![t] = "done"]
            /\ UNCHANGED rloc
       ELSE /\ rloc' = [rloc EXCEPT ![t].blind_sig_b64 =
                          int_to_b64(blind_sign(b64decode(rarg[t].blinded_token_b64),
                                                rloc[t].private_key))]
            /\ rpc' = [rpc EXCEPT ![t] = "register_voter"]
            /\ UNCHANGED rret
    /\ UNCHANGED <<ledgerVars, faultVars, concVars, dbVars, rarg>>

\* line 112
RRegisterVoter(t) ==
    /\ rpc[t] = "register_voter"
    /\ register_voter(rarg[t].voter_id)
    /\ rpc' = [rpc EXCEPT ![t] = "return"]
    /\ UNCHANGED <<ledgerVars, faultVars, concVars, eligible_voters, issuer_keys,
                   rarg, rloc, rret>>

\* line 114
RReturn(t) ==
    /\ rpc[t] = "return"
    /\ rret' = [rret EXCEPT ![t] = Issued(rloc[t].blind_sig_b64)]
    /\ rpc' = [rpc EXCEPT ![t] = "done"]
    /\ UNCHANGED <<ledgerVars, faultVars, concVars, dbVars, rarg, rloc>>

\* the administrator seeds eligible voters (seed_eligible_voters, one transaction)
SeedEligible ==
    /\ \E ids \in SUBSET SeedableIds :
        /\ ids # {}
        /\ seed_eligible_voters(ids)
    /\ UNCHANGED <<ledgerVars, faultVars, concVars, voters, issuer_keys, regVars>>

NextReg ==
    \/ SeedEligible
    \/ \E t \in Threads :
        \/ RCall(t)
        \/ RIsEligible(t)
        \/ RHasTokenIssued(t)
        \/ RGetIssuerKeys(t)
        \/ RBlindSign(t)
        \/ RRegisterVoter(t)
        \/ RReturn(t)

SpecReg == Init /\ [][NextReg]_vars

----------------------------------------------------------------------------
(* SpecBoot: the registry from a database file with no tables, its functions *)
(* and the register endpoint called one after the other, each as a whole.    *)
(* What a call returned or raised is in result.                              *)

\* the voter ids of SpecBoot: those of SpecReg, one with a hyphen, and one
\* with an accented capital E (written E4 here), both of which the
\* administrator may seed
BootSeedableIds == SeedableIds \cup {"VOTER-3", "VOTER_E4"}
BootVoterIds == BootSeedableIds \cup {"GHOST"}

\* the characters of a voter id
Characters(voter_id) ==
    CASE voter_id = "VOTER_00001" -> {"V", "O", "T", "E", "R", "_", "0", "1"}
      [] voter_id = "VOTER_00002" -> {"V", "O", "T", "E", "R", "_", "0", "2"}
      [] voter_id = "VOTER-3" -> {"V", "O", "T", "E", "R", "-", "3"}
      [] voter_id = "VOTER_E4" -> {"V", "O", "T", "E-acute", "R", "_", "4"}
      [] voter_id = "GHOST" -> {"G", "H", "O", "S", "T"}

AsciiAlnum == {"V", "O", "T", "E", "R", "G", "H", "S", "0", "1", "2", "3", "4"}
\* str.isalnum is true of every Unicode letter and digit
isalnum(c) == c \in AsciiAlnum \cup {"E-acute"}

\* what the callers send: the blinded tokens, a string b64decode raises on,
\* and a string of characters outside the base64 alphabet
BootBlindedInputs == BlindedInputs \cup {<<NonAlphabet>>}

\* table issuer_keys before init_db: there is no such table
NoTable == [private_key |-> [n |-> -1, e |-> -1, d |-> -1], public_key |-> [n |-> -1, e |-> -1]]

\* the key pairs generate_keypair may give
KeyInputs == {IssuerKey, OtherKey}
\* the rows store_issuer_keys may have written
StoredKeys == {KeyRow(key) : key \in KeyInputs}

\* CREATE TABLE IF NOT EXISTS: table issuer_keys after init_db
init_db == IF issuer_keys = NoTable THEN NoRow ELSE issuer_keys

\* a bootstrap that generates and stores a key pair every time
bootstrap_regenerates(demo_voter_ids, key) ==
    /\ issuer_keys' = KeyRow(key)
    /\ seed_eligible_voters(demo_voter_ids)
    /\ result' = Returned(issuer_keys'.public_key)
    /\ UNCHANGED voters

\* bootstrap; key is what generate_keypair gives if it is called
bootstrap(demo_voter_ids, key) ==
    /\ issuer_keys' = IF init_db = NoRow THEN KeyRow(key) ELSE init_db
    /\ seed_eligible_voters(demo_voter_ids)
    /\ result' = Returned(issuer_keys'.public_key)
    /\ UNCHANGED voters

\* the SELECT of get_issuer_keys raises sqlite3.OperationalError without the
\* table; with it and no row, get_public_key raises RuntimeError
get_public_key ==
    /\ result' = IF issuer_keys = NoTable THEN Raised("OperationalError")
                 ELSE IF get_issuer_keys = NoRow THEN Raised("RuntimeError")
                 ELSE Returned(get_issuer_keys.public_key)
    /\ UNCHANGED dbVars

Status(eligible, registered, token_issued) ==
    Returned([eligible |-> eligible, registered |-> registered, token_issued |-> token_issued])

\* get_voter_status reads the voters row, and eligible_voters when there is
\* none; the SELECT raises sqlite3.OperationalError without the table
get_voter_status(voter_id) ==
    IF issuer_keys = NoTable THEN Raised("OperationalError")
    ELSE IF ~voters[voter_id].present THEN Status(is_eligible(voter_id), FALSE, FALSE)
    ELSE Status(TRUE, TRUE, voters[voter_id].token_issued)

voter_status(voter_id) ==
    /\ result' = get_voter_status(voter_id)
    /\ UNCHANGED dbVars

\* what a call gives with no other call running: the value it returns (or the
\* exception it raises) and table voters after it
Outcome(r, rows) == [result |-> r, voters |-> rows]

\* an issuer that keeps the blind signature in the voter's row
issue_blind_token_keeps_signature(voter_id, blinded_token_b64) ==
    IF issuer_keys = NoTable \/ ~is_eligible(voter_id) \/ has_token_issued(voter_id)
        \/ get_issuer_keys = NoRow \/ b64decode_raises(blinded_token_b64)
    THEN Outcome(Refused(NotEligible), voters)
    ELSE Outcome(Issued(int_to_b64(blind_sign(b64decode(blinded_token_b64),
                                             get_issuer_keys.private_key))),
                 [voters EXCEPT ![voter_id] =
                     [present |-> TRUE, token_issued |-> TRUE,
                      blind_sig |-> blind_sign(b64decode(blinded_token_b64),
                                               get_issuer_keys.private_key)]])

\* issue_blind_token, lines 89-114
issue_blind_token(voter_id, blinded_token_b64) ==
    IF issuer_keys = NoTable THEN Outcome(Raised("OperationalError"), voters)
    ELSE IF ~is_eligible(voter_id) THEN Outcome(Refused(NotEligible), voters)
    ELSE IF has_token_issued(voter_id) THEN Outcome(Refused(AlreadyIssued), voters)
    ELSE IF get_issuer_keys = NoRow THEN Outcome(Refused(NotInitialized), voters)
    ELSE IF b64decode_raises(blinded_token_b64) THEN Outcome(Refused(InvalidBase64), voters)
    ELSE Outcome(Issued(int_to_b64(blind_sign(b64decode(blinded_token_b64),
                                             get_issuer_keys.private_key))),
                 upsert_voter(voter_id))

RegisterFieldsRequired == "voter_id and blinded_token_b64 are required"
InvalidVoterId == "Invalid voter_id format"

\* the HTTP status api_register gives a registry result
Answer(r, status) ==
    [kind |-> r.kind, success |-> r.success, blind_sig_b64 |-> r.blind_sig_b64,
     error |-> r.error, status |-> status]

\* api_register, lines 118-130; the voter ids of the model have no white
\* space around them for strip() to remove, and an exception of the registry
\* leaves the handler
api_register(voter_id, blinded_token_b64) ==
    IF voter_id = "" \/ blinded_token_b64 = <<>>
    THEN Outcome(Answer(Refused(RegisterFieldsRequired), 400), voters)
    ELSE IF ~\A c \in Characters(voter_id) : isalnum(c) \/ c = "_"
    THEN Outcome(Answer(Refused(InvalidVoterId), 400), voters)
    ELSE IF issue_blind_token(voter_id, blinded_token_b64).result.kind = "raise"
    THEN issue_blind_token(voter_id, blinded_token_b64)
    ELSE Outcome(Answer(issue_blind_token(voter_id, blinded_token_b64).result,
                        IF issue_blind_token(voter_id, blinded_token_b64).result.success
                        THEN 200 ELSE 400),
                 issue_blind_token(voter_id, blinded_token_b64).voters)

BootFrame == UNCHANGED <<chain, pending_votes, spent_tokens, file, now, receipts,
                         faultVars, concVars, regVars>>

InitDb ==
    /\ issuer_keys' = init_db
    /\ result' = NoResult
    /\ UNCHANGED <<eligible_voters, voters>>
    /\ BootFrame

Bootstrap ==
    /\ \E ids \in SUBSET BootSeedableIds, key \in KeyInputs : bootstrap(ids, key)
    /\ BootFrame

GetPublicKey == get_public_key /\ BootFrame

VoterStatus ==
    /\ \E v \in BootVoterIds : voter_status(v)
    /\ BootFrame

IssueToken ==
    /\ \E v \in BootVoterIds, b \in BootBlindedInputs :
        /\ result' = issue_blind_token(v, b).result
        /\ voters' = issue_blind_token(v, b).voters
    /\ UNCHANGED <<eligible_voters, issuer_keys>>
    /\ BootFrame

ApiRegister ==
    /\ \E v \in BootVoterIds, b \in BootBlindedInputs :
        /\ result' = api_register(v, b).result
        /\ voters' = api_register(v, b).voters
    /\ UNCHANGED <<eligible_voters, issuer_keys>>
    /\ BootFrame

\* the ledger as in Init, the database file without tables
InitBoot ==
    /\ chain = <<genesis(0)>>
    /\ file = _save(<<genesis(0)>>, {})
    /\ now = 0
    /\ pending_votes = <<>>
    /\ spent_tokens = {}
    /\ result = NoResult
    /\ receipts = <<>>
    /\ FaultIdle /\ ConcIdle /\ RegIdle
    /\ eligible_voters = {}
    /\ voters = [v \in BootVoterIds |-> NoVoter]
    /\ issuer_keys = NoTable

NextBoot == InitDb \/ Bootstrap \/ GetPublicKey \/ VoterStatus \/ IssueToken \/ ApiRegister

SpecBoot == InitBoot /\ [][NextBoot]_vars

----------------------------------------------------------------------------
(* SpecBootConc: threads inside bootstrap, one call each, a step per database *)
(* call (each one transaction). rloc[t] holds the locals private_key and      *)
(* public_key as a row of issuer_keys.                                        *)

BootConcFrame == UNCHANGED <<ledgerVars, faultVars, concVars>>

\* a thread calls bootstrap
BCall(t) ==
    /\ rpc[t] = "idle"
    /\ \E ids \in {{}, SeedableIds} : rarg' = [rarg EXCEPT ![t] = [demo_voter_ids |-> ids]]
    /\ rloc' = [rloc EXCEPT ![t] = NoRow]
    /\ rpc' = [rpc EXCEPT ![t] = "init_db"]
    /\ UNCHANGED <<dbVars, rret>>
    /\ BootConcFrame

\* line 42
BInitDb(t) ==
    /\ rpc[t] = "init_db"
    /\ issuer_keys' = init_db
    /\ rpc' = [rpc EXCEPT ![t] = "get_issuer_keys"]
    /\ UNCHANGED <<eligible_voters, voters, rarg, rloc, rret>>
    /\ BootConcFrame

\* lines 45-46
BGetIssuerKeys(t) ==
    /\ rpc[t] = "get_issuer_keys"
    /\ rloc' = [rloc EXCEPT ![t] = get_issuer_keys]
    /\ rpc' = [rpc EXCEPT ![t] = IF get_issuer_keys = NoRow THEN "generate_keypair" ELSE "seed"]
    /\ UNCHANGED <<dbVars, rarg, rret>>
    /\ BootConcFrame

\* line 48
BGenerateKeypair(t) ==
    /\ rpc[t] = "generate_keypair"
    /\ \E key \in KeyInputs : rloc' = [rloc EXCEPT ![t] = KeyRow(key)]
    /\ rpc' = [rpc EXCEPT ![t] = "store_issuer_keys"]
    /\ UNCHANGED <<dbVars, rarg, rret>>
    /\ BootConcFrame

\* INSERT ... ON CONFLICT(id) DO UPDATE: the row after store_issuer_keys
store_issuer_keys(row) == row

\* line 49
BStoreIssuerKeys(t) ==
    /\ rpc[t] = "store_issuer_keys"
    /\ issuer_keys' = store_issuer_keys(rloc[t])
    /\ rpc' = [rpc EXCEPT ![t] = "seed"]
    /\ UNCHANGED <<eligible_voters, voters, rarg, rloc, rret>>
    /\ BootConcFrame

\* lines 55-56
BSeed(t) ==
    /\ rpc[t] = "seed"
    /\ seed_eligible_voters(rarg[t].demo_voter_ids)
    /\ rpc' = [rpc EXCEPT ![t] = "return"]
    /\ UNCHANGED <<voters, issuer_keys, rarg, rloc, rret>>
    /\ BootConcFrame

\* line 59
BReturn(t) ==
    /\ rpc[t] = "return"
    /\ rret' = [rret EXCEPT ![t] = Returned(rloc[t].public_key)]
    /\ rpc' = [rpc EXCEPT ![t] = "done"]
    /\ UNCHANGED <<dbVars, rarg, rloc>>
    /\ BootConcFrame

NextBootConc ==
    \E t \in Threads :
        \/ BCall(t)
        \/ BInitDb(t)
        \/ BGetIssuerKeys(t)
        \/ BGenerateKeypair(t)
        \/ BStoreIssuerKeys(t)
        \/ BSeed(t)
        \/ BReturn(t)

SpecBootConc == InitBoot /\ [][NextBootConc]_vars

----------------------------------------------------------------------------
(* SpecBlind: one voter's run of the protocol, as in test_full_protocol:      *)
(* blind_token, blind_sign, unblind_signature, verify_signature. The thread   *)
(* Client runs it; rarg holds the key pair and the token, rloc the values     *)
(* the steps give.                                                            *)

Client == 1

\* the blinding factors blind_token accepts: r > 1 and r mod n # 0
BlindingFactors(key) == {r \in 0..(key.n - 1) : r > 1 /\ pow(r, 1, key.n) # 0}

BlindFrame == UNCHANGED <<ledgerVars, faultVars, concVars, dbVars>>

\* lines 51-77
PBlindToken ==
    /\ rpc[Client] = "blind_token"
    /\ \E r \in BlindingFactors(rarg[Client].key) :
        rloc' = [rloc EXCEPT ![Client] =
                    [blinded_bytes |-> blind_token(rarg[Client].token, r, publickey(rarg[Client].key)),
                     r |-> r, blind_sig |-> 0, sig |-> 0]]
    /\ rpc' = [rpc EXCEPT ![Client] = "blind_sign"]
    /\ UNCHANGED <<rarg, rret>>
    /\ BlindFrame

\* lines 115-128
PBlindSign ==
    /\ rpc[Client] = "blind_sign"
    /\ rloc' = [rloc EXCEPT ![Client].blind_sig =
                    blind_sign(rloc[Client].blinded_bytes, rarg[Client].key)]
    /\ rpc' = [rpc EXCEPT ![Client] = "unblind_signature"]
    /\ UNCHANGED <<rarg, rret>>
    /\ BlindFrame

\* lines 80-92
PUnblindSignature ==
    /\ rpc[Client] = "unblind_signature"
    /\ IF ~Invertible(rloc[Client].r, rarg[Client].key.n)
       THEN /\ rret' = [rret EXCEPT ![Client] = Raised("ValueError")]
            /\ rpc' = [rpc EXCEPT ![Client] = "done"]
            /\ UNCHANGED rloc
       ELSE /\ rloc' = [rloc EXCEPT ![Client].sig =
                           unblind_signature(rloc[Client].blind_sig, rloc[Client].r,
                                             publickey(rarg[Client].key))]
            /\ rpc' = [rpc EXCEPT ![Client] = "verify_signature"]
            /\ UNCHANGED rret
    /\ UNCHANGED rarg
    /\ BlindFrame

\* lines 95-108
PVerifySignature ==
    /\ rpc[Client] = "verify_signature"
    /\ rret' = [rret EXCEPT ![Client] =
                   Returned(verify_signature(rarg[Client].token, rloc[Client].sig,
                                             publickey(rarg[Client].key)))]
    /\ rpc' = [rpc EXCEPT ![Client] = "done"]
    /\ UNCHANGED <<rarg, rloc>>
    /\ BlindFrame

\* the integers a caller may pass as signature_int: below the modulus, or
\* beyond it by less than one modulus
SignatureInts(key) == 0..(key.n + key.n - 1)

\* test_tampered_signature_fails_verification: verify_signature on another
\* integer than the signature just verified
PVerifyTampered ==
    /\ rpc[Client] = "done"
    /\ rret[Client] = Returned(TRUE)
    /\ \E tampered \in SignatureInts(rarg[Client].key) :
        /\ tampered # rloc[Client].sig
        /\ rloc' = [rloc EXCEPT ![Client].sig = tampered]
        /\ rret' = [rret EXCEPT ![Client] =
                       Returned(verify_signature(rarg[Client].token, tampered,
                                                 publickey(rarg[Client].key)))]
    /\ rpc' = [rpc EXCEPT ![Client] = "tampered"]
    /\ UNCHANGED rarg
    /\ BlindFrame

\* the ledger and the registry at rest; the voter holds a token and the
\* public key of a key pair
InitBlind ==
    /\ chain = <<genesis(0)>>
    /\ file = _save(<<genesis(0)>>, {})
    /\ now = 0
    /\ pending_votes = <<>>
    /\ spent_tokens = {}
    /\ result = NoResult
    /\ receipts = <<>>
    /\ FaultIdle /\ ConcIdle
    /\ DbBootstrapped
    /\ rpc = [t \in Threads |-> IF t = Client THEN "blind_token" ELSE "idle"]
    /\ \E key \in KeyInputs, token \in Tokens :
        rarg = [t \in Threads |-> IF t = Client THEN [key |-> key, token |-> token] ELSE <<>>]
    /\ rloc = [t \in Threads |-> <<>>]
    /\ rret = [t \in Threads |-> NoResult]

NextBlind ==
    PBlindToken \/ PBlindSign \/ PUnblindSignature \/ PVerifySignature \/ PVerifyTampered

SpecBlind == InitBlind /\ [][NextBlind]_vars

----------------------------------------------------------------------------
(* SpecStores: one deployment, the registry's functions, the vote endpoint    *)
(* and the ledger's readers called one after the other, each as a whole.      *)

StoresFrame == UNCHANGED <<chain, pending_votes, spent_tokens, file, now, receipts,
                           faultVars, concVars, regVars>>

\* seed_eligible_voters returns nothing
StoresSeedEligible ==
    /\ \E ids \in SUBSET SeedableIds : seed_eligible_voters(ids)
    /\ result' = NoResult
    /\ UNCHANGED <<voters, issuer_keys>>
    /\ StoresFrame

StoresBootstrap ==
    /\ \E ids \in SUBSET SeedableIds, key \in KeyInputs : bootstrap(ids, key)
    /\ StoresFrame

StoresIssueToken ==
    /\ \E v \in VoterIds, b \in BlindedInputs :
        /\ result' = issue_blind_token(v, b).result
        /\ voters' = issue_blind_token(v, b).voters
    /\ UNCHANGED <<eligible_voters, issuer_keys>>
    /\ StoresFrame

StoresVoterStatus ==
    /\ \E v \in VoterIds : voter_status(v)
    /\ StoresFrame

\* the votes of two voters, with a credential of their own or of the other
StoresVote ==
    /\ \E t1 \in {1, 2}, t2 \in {1, 2}, c \in ConcCandidateInputs :
        api_vote(token_to_hex(t1), Credential(t2, IssuerKey), c)
    /\ UNCHANGED <<faultVars, concVars, dbVars, regVars>>

NextStores ==
    \/ StoresSeedEligible \/ StoresBootstrap \/ StoresIssueToken \/ StoresVoterStatus
    \/ StoresVote
    \/ GetChain \/ GetBlock \/ GetStats \/ GetTallies \/ IsTokenSpent \/ VerifyChain

SpecStores == Init /\ [][NextStores]_vars

----------------------------------------------------------------------------
(* SpecEndToEnd: the threads of SpecReg inside issue_blind_token, and votes   *)
(* through the endpoint between their steps. A voter holds a credential only  *)
(* for a token whose blinded value a call of issue_blind_token signed and     *)
(* returned: the vote unblinds the blind signature of that response.          *)

\* what the voters blinded: the token and the blinding factor of each value
\* of BlindedInputs
Blindings == {<<1, 2>>, <<2, 4>>}

\* api_vote with the credential unblinded from the response of thread u (the
\* ledger's lock makes the call one step for the other callers)
EVote ==
    /\ \E u \in Threads, w \in Blindings :
        /\ rpc[u] = "done"
        /\ rret[u].success
        /\ rarg[u].blinded_token_b64 = blind_token(w[1], w[2], publickey(IssuerKey))
        /\ api_vote(token_to_hex(w[1]),
                    int_to_b64(unblind_signature(b64_to_int(rret[u].blind_sig_b64), w[2],
                                                 publickey(IssuerKey))),
                    CANDIDATES[1])
    /\ UNCHANGED <<faultVars, concVars, dbVars, regVars>>

NextEndToEnd == NextReg \/ EVote

SpecEndToEnd == Init /\ [][NextEndToEnd]_vars

----------------------------------------------------------------------------
(* Claims about the ledger and the endpoint *)

NoDuplicates(l) == \A i, j \in 1..Len(l) : i # j => l[i] # l[j]

\* C1: once cast_vote has accepted a ballot with nullifier nf, no later
\* cast_vote with nf (with a candidate of the whitelist) is accepted, in the
\* same instance or in one reloaded from the chain file: no nullifier is
\* among the accepted ballots twice.
C1_AcceptedOnce == NoDuplicates(receipts)

\* the blocks of the chain that hold a vote with nullifier nf
BlocksWith(nf) ==
    {i \in 2..Len(chain) : \E k \in 1..Len(chain[i].votes) : chain[i].votes[k].token_hash = nf}

\* the calls that carry nullifier nf and a candidate of the whitelist
CallsWith(nf) ==
    {t \in Threads : pc[t] # "idle" /\ arg[t].token_hash = nf /\ arg[t].candidate \in CandidateSet}

AcceptedCalls(nf) == {t \in CallsWith(nf) : pc[t] = "done" /\ ret[t].success}

\* C2: under any interleaving of concurrent cast_vote calls, no two blocks hold
\* the same nullifier, at most one call per nullifier is accepted, exactly
\* one once all the calls that carry it have returned, and whenever the lock
\* is free the spent-set is the set of the nullifiers on the chain (check and
\* append are one step for every other thread).
C2_OneAcceptedPerNullifier ==
    /\ \A nf \in TokenHashInputs :
        /\ Cardinality(BlocksWith(nf)) <= 1
        /\ Cardinality(AcceptedCalls(nf)) <= 1
        /\ (CallsWith(nf) # {} /\ \A t \in CallsWith(nf) : pc[t] = "done")
                => Cardinality(AcceptedCalls(nf)) = 1
    /\ lock = 0 => spent_tokens = {nf \in TokenHashInputs : BlocksWith(nf) # {}}

\* C2 witness: two calls with the same nullifier have returned, one accepted,
\* one rejected as a double vote
C2_Witness ==
    \E t1, t2 \in Threads :
        /\ t1 # t2
        /\ pc[t1] = "done" /\ pc[t2] = "done"
        /\ arg[t1].token_hash = arg[t2].token_hash
        /\ ret[t1].success
        /\ ret[t2] = Rejected(DoubleVote, 0)

\* the credential (token_hash, signature excerpt) of a vote record is one the
\* issuer signed: some token has this nullifier and a verifying signature
\* with this excerpt
IssuerSigned(vote) ==
    \E t \in Tokens, sig_b64 \in SigInputs :
        /\ token_hash(t) = vote.token_hash
        /\ verify_signature(t, b64_to_int(sig_b64), publickey(IssuerKey))
        /\ excerpt(sig_b64) = vote.signature

\* C6: whoever calls cast_vote, every block of the chain carries a ballot
\* whose credential the issuer signed.
C6_EveryBallotSigned ==
    \A i \in 2..Len(chain) : \A k \in 1..Len(chain[i].votes) : IssuerSigned(chain[i].votes[k])

ApiRequests == TokenHexInputs \X SigInputs \X ApiCandidateInputs

\* the RSA signature of the issuer over a token: (SHA256(token) mod n)^d mod n
IssuerSignature(token) == pow(SHA256(token) % IssuerKey.n, IssuerKey.d, IssuerKey.n)

\* the (token, signature) of a request verifies under the issuer's public key:
\* the signature is the issuer's, up to a multiple of n
Verifies(token_hex, sig_b64) ==
    /\ token_hex # <<>> /\ IsHex(token_hex)
    /\ b64_to_int(sig_b64) % IssuerKey.n = IssuerSignature(hex_to_token(token_hex))

\* the requests whose (token, signature) does not verify, and among them those
\* with the three fields present, a candidate of the whitelist and a token_hex
\* that is hex
BadCredential == {r \in ApiRequests : ~Verifies(r[1], r[2])}
BadCredentialWellFormed ==
    {r \in BadCredential : r[1] # <<>> /\ r[2] # <<>> /\ r[3] \in CandidateSet /\ IsHex(r[1])}
GoodCredentialWellFormed ==
    {r \in ApiRequests \ BadCredential : r[2] # <<>> /\ r[3] \in CandidateSet}

\* C7 as stated: every vote through api_vote whose (token, signature) does not
\* verify is answered with the invalid-credential error.
C7_AlwaysInvalidCredential ==
    \A r \in BadCredential : api_vote_check(r[1], r[2], r[3]) = Rejected(InvalidCredential, 403)

\* how many requests of each class the endpoint is given
RequestClassSizes ==
    <<Cardinality(BadCredential), Cardinality(BadCredentialWellFormed),
      Cardinality(GoodCredentialWellFormed)>>

\* what api_vote answers to a request, by its credential: a well-formed request
\* whose credential does not verify gets the 403, no request whose credential
\* does not verify goes on to the ledger, every well-formed request whose
\* credential verifies does
CredentialDecides ==
    /\ \A r \in BadCredentialWellFormed :
            api_vote_check(r[1], r[2], r[3]) = Rejected(InvalidCredential, 403)
    /\ \A r \in BadCredential : api_vote_check(r[1], r[2], r[3]) # NoResult
    /\ \A r \in GoodCredentialWellFormed : api_vote_check(r[1], r[2], r[3]) = NoResult

\* a step that ends in the 403 changes nothing of the ledger, and a vote with
\* an unspent token and the issuer's signature over it is accepted
RejectionKeepsToken ==
    [][/\ result' = Rejected(InvalidCredential, 403)
            => UNCHANGED <<chain, spent_tokens, pending_votes, file>>
       /\ \/ result'.success
          \/ ~\E r \in GoodCredentialWellFormed :
                /\ token_hash(hex_to_token(r[1])) \notin spent_tokens
                /\ api_vote(r[1], r[2], r[3])]_vars

\* C7 (amended): a vote through api_vote with its three fields present, a
\* candidate of the whitelist and a well-formed token_hex, whose (token,
\* signature) does not verify, is answered 403 with the invalid-credential
\* error before the ledger is called; no request that does not verify
\* reaches the ledger; the rejection leaves the chain, the spent-set, the
\* pending votes and the chain file unchanged; and a vote with a token that is
\* not spent and the issuer's signature over it is accepted.
C7_InvalidCredentialRejected == []CredentialDecides /\ RejectionKeepsToken

\* C7 witness: a forged credential was just rejected on a ledger that holds a
\* ballot, and a token is still unspent
C7_Witness ==
    /\ result = Rejected(InvalidCredential, 403)
    /\ Len(chain) > 1
    /\ \E t \in Tokens : token_hash(t) \notin spent_tokens

\* C8: a cast_vote rejected for an invalid choice or for a double vote leaves
\* the chain, the spent-set, the pending votes, the tallies and the chain file
\* as they were.
C8_RejectionChangesNothing ==
    [][(result'.kind = "return" /\ ~result'.success
            /\ result'.error \in {InvalidCandidate, DoubleVote})
        => /\ UNCHANGED <<chain, spent_tokens, pending_votes, file>>
           /\ get_tallies(chain') = get_tallies(chain)]_vars

\* C8 witness: a double vote was just rejected
C8_Witness ==
    /\ result = Rejected(DoubleVote, 0)
    /\ Len(chain) > 1

\* C9: when _save raised inside cast_vote, the memory is rolled back to the
\* persisted state: with the file intact, chain and spent-set are the
\* document in the file.
C9_RolledBack ==
    (lpc = "idle" /\ result = Raised("OSError") /\ Parses(file))
        => Document(chain, spent_tokens) = file.doc

\* C10: at every point of _save (so wherever the process stops) the chain
\* file holds a complete document, the previous one or the new one, and with
\* it every ballot accepted so far.
C10_FileComplete ==
    receipts # <<>> => (Parses(file) /\ set(receipts) \subseteq set(file.doc.spent_tokens))

----------------------------------------------------------------------------
(* Claims about the registry *)

\* C3: of two concurrent issue_token calls for the same voter_id, never do
\* both return a blind signature.
C3_OneSignaturePerVoter ==
    \A t1, t2 \in Threads :
        (t1 # t2 /\ rpc[t1] = "done" /\ rpc[t2] = "done"
            /\ rarg[t1].voter_id = rarg[t2].voter_id)
        => ~(rret[t1].success /\ rret[t2].success)

\* C4: token_issued, once true, stays true and the row stays (no step resets
\* or deletes it), and a call to issue_token that begins with the flag set
\* never gets past the duplicate check: it returns the already-issued error
\* and no blind signature.
C4_IssuanceIsTerminal ==
    /\ [][\A v \in VoterIds : voters[v].token_issued
            => (voters'[v].present /\ voters'[v].token_issued)]_vars
    /\ [](\A t \in Threads : (rpc[t] # "idle" /\ rarg[t].after_issue)
            => /\ rpc[t] \in {"is_eligible", "has_token_issued", "done"}
               /\ rpc[t] = "done" => rret[t] = Refused(AlreadyIssued))

\* C4 witness: a call that began after the voter's token was issued has been
\* refused
C4_Witness ==
    \E t \in Threads :
        /\ rpc[t] = "done"
        /\ rarg[t].after_issue
        /\ rret[t] = Refused(AlreadyIssued)

\* C5: issue_token for a voter_id that is not in the eligible set returns the
\* not-eligible error and no blind signature, and changes no table.
C5_IneligibleRefused ==
    [][\A t \in Threads :
        (rpc[t] = "is_eligible" /\ rpc'[t] # "is_eligible"
            /\ rarg[t].voter_id \notin eligible_voters)
        => /\ rpc'[t] = "done"
           /\ rret'[t] = Refused(NotEligible)
           /\ rret'[t].blind_sig_b64 = <<>>
           /\ UNCHANGED <<eligible_voters, voters, issuer_keys>>]_vars

\* C5 witness: an unseeded voter has been refused while another voter holds a
\* registration row
C5_Witness ==
    \E t \in Threads :
        /\ rpc[t] = "done"
        /\ rret[t] = Refused(NotEligible)
        /\ rarg[t].voter_id \notin eligible_voters
        /\ \E v \in VoterIds : voters[v].present

----------------------------------------------------------------------------
(* Claims about persistence and the structure of the chain *)

\* C11: after any sequence of cast_vote calls that returned, the persisted
\* document is the state in memory (the blocks as get_chain gives them, the
\* spent-set), and a new Blockchain built from the file has the same block
\* sequence, the same spent-set and the same tallies, without reinitializing.
C11_RoundTrip ==
    /\ Parses(file)
    /\ file.doc.chain = get_chain(chain)
    /\ set(file.doc.spent_tokens) = spent_tokens
    /\ LET l == _load_or_init(file, now) IN
        /\ ~l.reinit
        /\ l.chain = chain
        /\ get_chain(l.chain) = get_chain(chain)
        /\ l.spent_tokens = spent_tokens
        /\ get_tallies(l.chain) = get_tallies(chain)

\* C11 witness: two ballots were accepted and the last call was rejected
C11_Witness ==
    /\ Len(chain) = 3
    /\ Cardinality(spent_tokens) = 2
    /\ result.kind = "return" /\ ~result.success

\* C12: block 0 has the all-zero previous_hash, every later block has the
\* stored hash of the block before it as previous_hash and the hash of its
\* own fields as hash, and verify_chain answers valid with the chain length.
C12_HashChain ==
    /\ chain[1].previous_hash = ZeroHash
    /\ \A i \in 2..Len(chain) :
        /\ chain[i].previous_hash = chain[i - 1].hash
        /\ chain[i].hash = compute_hash(chain[i].index, chain[i].timestamp, chain[i].votes,
                                        chain[i].previous_hash, chain[i].nonce)
    /\ verify_chain(chain) = [valid |-> TRUE, block_count |-> Len(chain)]

\* C12 witness: a second ballot was just accepted on top of the first
C12_Witness ==
    /\ Len(chain) = 3
    /\ result.success
    /\ chain[3].previous_hash = chain[2].hash

\* C13: an instance that exists has a chain that is not empty and begins
\* with a genesis block, whatever file it was started on.
C13_ChainNeverEmpty ==
    lpc = "idle" => (chain # <<>> /\ chain[1] = genesis(chain[1].timestamp))

\* C14: chain[i].index = i everywhere; an accepted cast_vote grows the chain
\* by one block and returns the length before the call as block_index and the
\* new block's stored hash as tx_hash; a rejected one leaves the length.
C14_DenseIndices ==
    /\ [](\A i \in 1..Len(chain) : chain[i].index = i - 1)
    /\ [][/\ result'.success
                => /\ Len(chain') = Len(chain) + 1
                   /\ result'.block_index = Len(chain)
                   /\ result'.tx_hash = chain'[Len(chain')].hash
          /\ (result'.kind = "return" /\ ~result'.success)
                => Len(chain') = Len(chain)]_vars

\* C14 witness: the second accepted ballot got block_index 2
C14_Witness ==
    /\ result.success
    /\ result.block_index = 2
    /\ Len(chain) = 3

\* C15: every block of the chain, the genesis block included, has a stored
\* hash that begins with DIFFICULTY zero digits.
C15_AllSealed ==
    \A i \in 1..Len(chain) : StartsWithZeros(chain[i].hash)

\* the vote records with choice c in the blocks after the genesis block
VoteRecordsFor(c) ==
    UNION {{<<i, k>> : k \in {j \in 1..Len(chain[i].votes) : chain[i].votes[j].candidate = c}} :
            i \in 2..Len(chain)}

RECURSIVE SumOf(_, _)
SumOf(f, S) == IF S = {} THEN 0 ELSE LET x == CHOOSE y \in S : TRUE IN f[x] + SumOf(f, S \ {x})

\* C16: get_tallies has exactly the candidates as keys, tallies[c] is the
\* number of vote records with choice c in blocks 1..end, the tallies sum to
\* the number of accepted ballots, and a rejected ballot changes no tally.
C16_TalliesExact ==
    /\ [](/\ DOMAIN get_tallies(chain) = CandidateSet
          /\ \A c \in CandidateSet : get_tallies(chain)[c] = Cardinality(VoteRecordsFor(c))
          /\ SumOf(get_tallies(chain), CandidateSet) = Len(receipts))
    /\ [][(result'.kind = "return" /\ ~result'.success)
            => get_tallies(chain') = get_tallies(chain)]_vars

\* C16 witness: one ballot each for two candidates, then a rejected call
C16_Witness ==
    /\ get_tallies(chain)[CANDIDATES[1]] = 1
    /\ get_tallies(chain)[CANDIDATES[2]] = 1
    /\ result.kind = "return" /\ ~result.success

\* the values a field of a vote record may be changed to
VoteFieldValues ==
    [token_hash |-> TokenHashInputs, candidate |-> CandidateSet,
     timestamp |-> Times, signature |-> SignatureInputs]

\* C17: changing any field of any vote record of any block after the genesis
\* block, hashes left as they are, makes verify_chain answer valid = false.
C17_TamperDetected ==
    \A i \in 2..Len(chain) : \A k \in 1..Len(chain[i].votes) :
        \A f \in DOMAIN VoteFieldValues : \A v \in VoteFieldValues[f] \ {chain[i].votes[k][f]} :
            ~verify_chain(tamper(chain, i, k, f, v)).valid

\* C17 witness: two ballots on a valid chain, and the choice of the first one
\* changed is found out
C17_Witness ==
    /\ Len(chain) = 3
    /\ verify_chain(chain).valid
    /\ ~verify_chain(tamper(chain, 2, 1, "candidate", CANDIDATES[3])).valid

\* the chain json.load and from_dict give for a file that parses
LoadedChain(f) == [i \in 1..Len(f.doc.chain) |-> from_dict(f.doc.chain[i])]

\* C18: a start on a file that does not parse, or whose chain fails the
\* check, keeps nothing of it: the instance is a fresh ledger (one new genesis
\* block, no spent token), that state is in the file, and verify_chain is
\* valid.
C18_FreshAfterFailedLoad ==
    [][(/\ lpc = "down" /\ lpc' = "idle"
        /\ (~Parses(file) \/ ~verify_chain(LoadedChain(file)).valid))
        => /\ Len(chain') = 1
           /\ chain'[1] = genesis(chain'[1].timestamp)
           /\ spent_tokens' = {}
           /\ file' = Complete([chain |-> get_chain(chain'), spent_tokens |-> <<>>])
           /\ verify_chain(chain').valid]_vars

----------------------------------------------------------------------------
(* Claims about the issuer's keys *)

\* C19: a bootstrap leaves a key pair stored; once one is stored no call of
\* bootstrap, issue_blind_token, voter_status or get_public_key changes it
\* (so get_public_key gives the same key before and after); and only a
\* bootstrap stores one.
C19_KeysCreatedOnce ==
    [][/\ issuer_keys \in StoredKeys => issuer_keys' = issuer_keys
       /\ (\E ids \in SUBSET BootSeedableIds, key \in KeyInputs : bootstrap(ids, key))
            => issuer_keys' \in StoredKeys
       /\ (issuer_keys \notin StoredKeys /\ issuer_keys' \in StoredKeys)
            => \E ids \in SUBSET BootSeedableIds, key \in KeyInputs : bootstrap(ids, key)]_vars

\* C19 witness: a token was issued under the stored key pair and a later
\* bootstrap returned that same public key
C19_Witness ==
    /\ issuer_keys = KeyRow(OtherKey)
    /\ \E v \in BootVoterIds : voters[v].token_issued
    /\ result = Returned(publickey(OtherKey))

\* C20: get_public_key changes no table, and with no key record stored it
\* fails with the not-initialized RuntimeError.
C20_UninitializedError ==
    [][get_public_key
        => /\ UNCHANGED dbVars
           /\ issuer_keys \notin StoredKeys => result' = Raised("RuntimeError")]_vars

----------------------------------------------------------------------------
(* the blind-signature law, the registry's answers, and the order of the ledger *)

\* C21: every run of the protocol, whatever blinding factor blind_token
\* returned, ends with verify_signature answering true for the token and the
\* unblinded signature.
C21_BlindSignatureLaw ==
    rpc[Client] = "done" => rret[Client] = Returned(TRUE)

\* the same law for the blinding factors that have an inverse for the modulus
C21_LawForInvertibleFactors ==
    (rpc[Client] = "done" /\ Invertible(rloc[Client].r, rarg[Client].key.n))
        => rret[Client] = Returned(TRUE)

\* the answer the claim gives for a voter id in a registry state
StatusByState(voter_id) ==
    IF voter_id \notin eligible_voters THEN Status(FALSE, FALSE, FALSE)
    ELSE IF ~voters[voter_id].token_issued THEN Status(TRUE, FALSE, FALSE)
    ELSE Status(TRUE, TRUE, TRUE)

\* C22: voter_status changes no table, and answers by the state of the
\* registry: all false for an id outside the eligible set, eligible only for
\* an eligible id with no token issued, all true once a token was issued.
C22_StatusByState ==
    [][\A v \in BootVoterIds :
          voter_status(v) => (UNCHANGED dbVars /\ result' = StatusByState(v))]_vars

\* the same once init_db has created the tables
C22_StatusAfterInitDb ==
    [][\A v \in BootVoterIds :
          (voter_status(v) /\ issuer_keys # NoTable)
              => (UNCHANGED dbVars /\ result' = StatusByState(v))]_vars

\* the ASCII class [A-Za-z0-9_]
InClass(c) == c \in AsciiAlnum \cup {"_"}

\* C23: a voter id with a character outside [A-Za-z0-9_] is refused by
\* issue_blind_token and by the register endpoint, seeded as eligible or not,
\* and table voters stays as it was.
C23_BadIdRejected ==
    \A v \in BootVoterIds, b \in BootBlindedInputs :
        (\E c \in Characters(v) : ~InClass(c))
            => /\ ~issue_blind_token(v, b).result.success
               /\ issue_blind_token(v, b).voters = voters
               /\ ~api_register(v, b).result.success
               /\ api_register(v, b).voters = voters

\* a string of base64: every character in the alphabet, no group cut short
IsBase64(b64_str) == \A i \in 1..Len(b64_str) : b64_str[i] \in 0..(ByteBase - 1)

\* C24: for an eligible voter with no token issued and an issuer with keys, a
\* blinded value that is not base64 is refused with the invalid-encoding
\* error, no signature is returned and the voter's row is not written (so a
\* later call with a well-formed value is still served).
C24_MalformedRejected ==
    \A v \in BootVoterIds, b \in BootBlindedInputs :
        (~IsBase64(b) /\ issuer_keys \in StoredKeys /\ is_eligible(v) /\ ~has_token_issued(v))
            => issue_blind_token(v, b) = Outcome(Refused(InvalidBase64), voters)

\* C25: two successful calls of issue_blind_token for one voter id in one
\* registry state, whatever blinded values they carry, leave the same tables:
\* the voter's row with token_issued set, every other row as it was.
C25_NothingRetained ==
    \A v \in BootVoterIds, b1 \in BootBlindedInputs, b2 \in BootBlindedInputs :
        (issue_blind_token(v, b1).result.success /\ issue_blind_token(v, b2).result.success)
            => /\ issue_blind_token(v, b1).voters = issue_blind_token(v, b2).voters
               /\ issue_blind_token(v, b1).voters = [voters EXCEPT ![v] = IssuedRow]

\* C25 witness: a token was issued, and for another voter two blinded values
\* would both be signed, with different blind signatures
C25_Witness ==
    /\ issuer_keys \in StoredKeys
    /\ \E b \in BootBlindedInputs :
        /\ ~b64decode_raises(b)
        /\ result = Issued(int_to_b64(blind_sign(b64decode(b), issuer_keys.private_key)))
    /\ \E v \in BootVoterIds : voters[v].token_issued
    /\ \E v \in BootVoterIds, b1 \in BootBlindedInputs, b2 \in BootBlindedInputs :
        /\ issue_blind_token(v, b1).result.success
        /\ issue_blind_token(v, b2).result.success
        /\ issue_blind_token(v, b1).result # issue_blind_token(v, b2).result

\* C26: every bootstrap that has returned, returned the public key that is
\* in the store, now and in every later state: concurrent calls return the
\* same key and a returned key is never replaced.
C26_OneKeyForAll ==
    \A t \in Threads : rpc[t] = "done" => rret[t] = Returned(issuer_keys.public_key)

\* the threads whose cast_vote has returned success
AcceptedThreads == {t \in Threads : pc[t] = "done" /\ ret[t].success}

\* C27: of two accepted calls the one that acquired the lock first has the
\* smaller block_index; the indices of the accepted calls are distinct and
\* are 1, 2, ... without a gap; and the block of each call is in the chain at
\* its index, its previous_hash the hash of the block before it.
C27_AcceptanceOrder ==
    /\ \A a \in AcceptedThreads, b \in AcceptedThreads :
        /\ arg[a].acquired < arg[b].acquired => ret[a].block_index < ret[b].block_index
        /\ a # b => ret[a].block_index # ret[b].block_index
    /\ {ret[t].block_index : t \in AcceptedThreads} = 1..Cardinality(AcceptedThreads)
    /\ \A b \in AcceptedThreads :
        /\ ret[b].block_index + 1 <= Len(chain)
        /\ chain[ret[b].block_index + 1].hash = ret[b].tx_hash
        /\ chain[ret[b].block_index + 1].previous_hash = chain[ret[b].block_index].hash

\* C27 witness: two calls were accepted
C27_Witness ==
    \E a \in AcceptedThreads, b \in AcceptedThreads :
        /\ arg[a].acquired < arg[b].acquired
        /\ ret[b].block_index = 2

IsPrefix(s, t) == Len(s) <= Len(t) /\ SubSeq(t, 1, Len(s)) = s

\* C28: every step of a cast_vote, accepted or rejected, and of a reading
\* call leaves the blocks of the chain as they were, so the chain before is
\* a prefix of the chain after, and takes no nullifier out of the spent-set.
C28_AppendOnly ==
    [][IsPrefix(chain, chain') /\ spent_tokens \subseteq spent_tokens']_vars

\* C28 witness: a ballot was accepted and a get_chain returned the two blocks
C28_Witness ==
    /\ Len(chain) = 2
    /\ \E t \in Threads :
        /\ pc[t] = "done"
        /\ arg[t].op = "get_chain"
        /\ ret[t].value = get_chain(chain)

\* C29: the genesis block holds no vote; every other block holds one vote
\* record with a choice of the candidate set; and the nullifier of a block's
\* vote was not in the spent-set when the block was appended.
C29_OneVotePerBlock ==
    /\ [](/\ Len(chain) >= 1
          /\ chain[1].votes = <<>>
          /\ \A i \in 2..Len(chain) :
              /\ Len(chain[i].votes) = 1
              /\ chain[i].votes[1].candidate \in CandidateSet)
    /\ [][\A i \in (Len(chain) + 1)..Len(chain') :
              chain'[i].votes[1].token_hash \notin spent_tokens]_vars

\* C29 witness: two ballots are in the chain and a third call was rejected
C29_Witness ==
    /\ Len(chain) = 3
    /\ result.kind = "return" /\ ~result.success

\* C30: what a reading call returned is a state between two calls of
\* cast_vote: get_stats gives total_votes = block_count - 1 = spent_tokens,
\* and the last block of the chain get_chain gives is mined and is linked to
\* the block before it.
C30_ReadersSeeWholeCalls ==
    \A t \in Threads :
        (pc[t] = "done" /\ arg[t].op \in ReadOps)
            => /\ arg[t].op = "get_stats"
                    => /\ ret[t].value.total_votes = ret[t].value.block_count - 1
                       /\ ret[t].value.total_votes = ret[t].value.spent_tokens
               /\ arg[t].op = "get_chain"
                    => LET c == ret[t].value
                           n == Cardinality(DOMAIN ret[t].value)
                       IN /\ StartsWithZeros(c[n].hash)
                          /\ n > 1 => c[n].previous_hash = c[n - 1].hash

\* the same with the genesis block left out of the proof-of-work rule
C30_VoteBlocksWhole ==
    \A t \in Threads :
        (pc[t] = "done" /\ arg[t].op \in ReadOps)
            => /\ arg[t].op = "get_stats"
                    => /\ ret[t].value.total_votes = ret[t].value.block_count - 1
                       /\ ret[t].value.total_votes = ret[t].value.spent_tokens
               /\ arg[t].op = "get_chain"
                    => LET c == ret[t].value
                           n == Cardinality(DOMAIN ret[t].value)
                       IN n > 1 => /\ StartsWithZeros(c[n].hash)
                                   /\ c[n].previous_hash = c[n - 1].hash

----------------------------------------------------------------------------
(* the readers, the two stores, the order of the checks, and the end-to-end bound *)

\* C31: get_chain, get_block, get_stats, get_tallies, is_token_spent and
\* verify_chain leave the chain, the spent-set and the file as they were; and
\* get_block(i) is block i for 0 <= i < len(chain) and None for every other
\* index, the negative ones included.
C31_ReadOnly ==
    /\ [](\A index \in IndexInputs :
            get_block(chain, index) =
                IF index \in 0..(Len(chain) - 1) THEN to_dict(chain[index + 1]) ELSE None)
    /\ [][("method" \in DOMAIN result')
            => (/\ result'.method \in {"get_chain", "get_block", "get_stats", "get_tallies",
                                       "is_token_spent", "verify_chain"}
                /\ UNCHANGED <<chain, spent_tokens, file>>)]_vars

\* C31 witness: with a ballot on the chain, get_block answered None
C31_Witness ==
    /\ Len(chain) >= 2
    /\ "method" \in DOMAIN result
    /\ result.method = "get_block"
    /\ result.value = None

\* C33: once a signature has verified for a token under a public key,
\* verify_signature answers false for the same token and key with any other
\* integer, those that differ from the signature by the modulus included.
C33_OneSignatureVerifies ==
    rpc[Client] = "tampered" => rret[Client] = Returned(FALSE)

\* the same for the integers below the modulus
C33_OneSignatureBelowModulus ==
    (rpc[Client] = "tampered" /\ rloc[Client].sig < rarg[Client].key.n)
        => rret[Client] = Returned(FALSE)

\* C34: the blinding factor blind_token returned lies in 2..n-1 and has an
\* inverse for the modulus (it is coprime to n), and unblind_signature does
\* not fail on it.
C34_FactorCoprime ==
    rpc[Client] # "blind_token"
        => /\ rloc[Client].r \in 2..(rarg[Client].key.n - 1)
           /\ Invertible(rloc[Client].r, rarg[Client].key.n)
           /\ rret[Client].kind # "raise"

\* what cast_vote, api_vote and the ledger's readers answer
IsLedgerAnswer(r) ==
    \/ "method" \in DOMAIN r
    \/ "block_index" \in DOMAIN r /\ r.kind # "none"

\* C32: a call of seed_eligible, bootstrap, issue_token or voter_status
\* leaves the chain, the spent-set and the chain file as they were; a vote
\* and every read of the ledger leave the eligible set, the registration rows
\* and the issuer's keys as they were; and a block has the six fields of a
\* block, a vote record the fields token_hash, candidate, timestamp and
\* signature with a candidate that is no voter id, and the spent-set holds
\* hashes of tokens only.
C32_StoresDisjoint ==
    /\ [](/\ \A i \in 1..Len(chain) :
              /\ DOMAIN chain[i] =
                    {"index", "timestamp", "votes", "previous_hash", "nonce", "hash"}
              /\ \A j \in 1..Len(chain[i].votes) :
                    /\ DOMAIN chain[i].votes[j] =
                          {"token_hash", "candidate", "timestamp", "signature"}
                    /\ chain[i].votes[j].candidate \notin VoterIds
          /\ spent_tokens \subseteq TokenHashInputs)
    /\ [][/\ ~IsLedgerAnswer(result') => UNCHANGED <<chain, spent_tokens, file>>
          /\ IsLedgerAnswer(result') => UNCHANGED dbVars]_vars

\* C32 witness: a voter holds a token, a ballot is on the chain, and the
\* registry was asked for a status after it
C32_Witness ==
    /\ Len(chain) >= 2
    /\ \E v \in VoterIds : voters[v].token_issued
    /\ result \in {get_voter_status(v) : v \in VoterIds}

\* the requests by the first check they fail: a field is missing; the choice
\* is outside the candidate set; the credential does not decode; it decodes
\* and does not verify; and the requests that pass all of these
FieldsPresent == {r \in ApiRequests : r[1] # <<>> /\ r[2] # <<>> /\ r[3] # ""}
BadChoice == {r \in FieldsPresent : r[3] \notin CandidateSet}
Undecodable ==
    {r \in FieldsPresent \ BadChoice : ~IsHex(r[1]) \/ b64decode_raises(r[2])}
Forged == {r \in FieldsPresent \ (BadChoice \cup Undecodable) : ~Verifies(r[1], r[2])}
Genuine == FieldsPresent \ (BadChoice \cup Undecodable \cup Forged)

NullifiersOnChain ==
    UNION {{chain[i].votes[j].token_hash : j \in 1..Len(chain[i].votes)} : i \in 2..Len(chain)}

\* C36: in every state of a constructed ledger, right after a load and
\* right after a reinitialization included, the spent-set is the set of the
\* nullifiers of the vote records in the blocks after the genesis block, and
\* get_stats reports as many spent tokens as votes.
C36_SpentIsOnChain ==
    lpc = "idle"
        => /\ spent_tokens = NullifiersOnChain
           /\ get_stats(chain, spent_tokens).spent_tokens =
                get_stats(chain, spent_tokens).total_votes

\* C37: under every interleaving of issue_blind_token calls and votes, the
\* ballots on the chain are at most as many as the voters whose token_issued
\* flag is set, and these at most as many as the eligible voters.
C37_BallotsBounded ==
    /\ Len(chain) - 1 <= Cardinality({v \in VoterIds : voters[v].token_issued})
    /\ Cardinality({v \in VoterIds : voters[v].token_issued}) <= Cardinality(eligible_voters)

\* the same bound against the successful responses of issue_blind_token
C37_BallotsBoundedByResponses ==
    Len(chain) - 1 <= Cardinality({t \in Threads : rpc[t] = "done" /\ rret[t].success})

\* C38: every voter id with a row in voters is in eligible_voters; no step
\* takes an id out of eligible_voters; a seeding changes no registration row
\* and no key; and a seeding of ids that are all in the table already leaves
\* the table as it was.
C38_RowsAreEligible ==
    /\ []({v \in VoterIds : voters[v].present} \subseteq eligible_voters)
    /\ [][/\ eligible_voters \subseteq eligible_voters'
          /\ result'.kind = "none"
                => /\ UNCHANGED <<voters, issuer_keys>>
                   /\ \A ids \in SUBSET eligible_voters :
                        seed_eligible_voters(ids) => UNCHANGED eligible_voters]_vars

\* C38 witness: after a token was issued, the ids were seeded again
C38_Witness ==
    /\ result = NoResult
    /\ eligible_voters = SeedableIds
    /\ \E v \in VoterIds : voters[v].present /\ voters[v].token_issued

\* C39: a thread that is not inside the with statement of a ledger method
\* does not hold the lock, whichever way its call ended (success, rejection,
\* an exception while mining or saving); and with every thread that can take
\* a step taking one, every call that was started returns.
C39_LockReleased ==
    /\ [](\A t \in Threads :
            pc[t] \in {"idle", "acquire", "read_acquire", "done"} => lock # t)
    /\ \A t \in Threads : (pc[t] # "idle") ~> (pc[t] = "done")

\* C39 witness: a call that acquired the lock after a call that ended in an
\* exception has returned
C39_Witness ==
    \E t \in Threads, u \in Threads :
        /\ pc[t] = "done" /\ ret[t].kind = "raise"
        /\ pc[u] = "done" /\ ret[u].kind = "return"
        /\ arg[u].acquired > arg[t].acquired

\* the calls of get_blockchain that ran the constructor
Constructors == {t \in Threads : pc[t] # "idle" /\ arg[t].constructed}

\* C40: under every interleaving of first calls of get_blockchain the
\* constructor runs at most once, and once when a call has returned; every
\* call that returned, returned the instance that is in the global; and
\* once the global is set, no step replaces it or loads or initializes the
\* chain file again.
C40_Singleton ==
    /\ [](/\ Cardinality(Constructors) <= 1
          /\ \A t \in Threads :
                pc[t] = "done"
                    => /\ Cardinality(Constructors) = 1
                       /\ _blockchain_instance \in Constructors
                       /\ ret[t] = Returned(_blockchain_instance))
    /\ [][_blockchain_instance # 0
            => UNCHANGED <<_blockchain_instance, chain, spent_tokens, file>>]_vars

\* C40 witness: every thread's call has returned, and one of them took the
\* lock after the constructor had run
C40_Witness ==
    /\ \A t \in Threads : pc[t] = "done"
    /\ \E t \in Threads \ Constructors : arg[t].acquired > 0
====
